---- MODULE Spec2Model ----
(***************************************************************************)
(* A model of owl_patch's audio data path: the overlap-add resynthesis     *)
(* engine (examples/src/resynth.rs) and the sample buffers                 *)
(* (src/sample_buffer.rs).                                                 *)
(*                                                                         *)
(* Numbers.  The engine works on f32 samples.  The model computes with     *)
(* exact reals of the form a + b*sqrt(2) (a, b integers), written <<a,b>>, *)
(* over a fixed denominator that is stated where the value is stored.      *)
(* For the window lengths 4 and 8 every Hann value and every twiddle       *)
(* factor is of that form, so the whole tick is computed exactly.          *)
(***************************************************************************)
EXTENDS Integers, Sequences, FiniteSets, TLC

(***************************************************************************)
(* Bounds of the model.                                                    *)
(***************************************************************************)
\* Ticks fed to one engine over its lifetime (across resets).
MaxTicks == 20
\* Non-zero input samples fed to one engine over its lifetime.
MaxPulses == 1

(***************************************************************************)
(* Program constants.                                                      *)
(***************************************************************************)
WINDOWS == 4
\* I::USIZE and O::USIZE of the pass-through network, Resynth::<U1, U1, _>.
Inputs == 1
Outputs == 1
\* A u32 counter is carried as its two 16-bit halves <<hi, lo>>.
Half == 65536

\* The window lengths the model runs (real_size() of the FFT capability).
WindowLengths == {4, 8}
\* The input samples a tick may be fed.
Samples == {0, 1}
\* The processing closures the engine is constructed with:
\*   "copy"  the pass-through of build_network (set(0,i, at(0,i)) for every bin)
\*   "none"  a closure that sets no bin
\*   "dc"    a closure that sets bin 0 to a constant, whatever the input
Closures == {"copy", "none", "dc"}

(***************************************************************************)
(* Exact reals a + b*sqrt(2) and complex numbers over them.                *)
(***************************************************************************)
RZero == <<0, 0>>
RInt(n) == <<n, 0>>
RAdd(x, y) == <<x[1] + y[1], x[2] + y[2]>>
RSub(x, y) == <<x[1] - y[1], x[2] - y[2]>>
RNeg(x) == <<0 - x[1], 0 - x[2]>>
RMul(x, y) == <<x[1] * y[1] + 2 * x[2] * y[2], x[1] * y[2] + x[2] * y[1]>>
RScale(n, x) == <<n * x[1], n * x[2]>>

\* Complex32 { re, im }
Complex(re, im) == [re |-> re, im |-> im]
CZero == Complex(RZero, RZero)
CAdd(a, b) == Complex(RAdd(a.re, b.re), RAdd(a.im, b.im))
CMul(a, b) == Complex(RSub(RMul(a.re, b.re), RMul(a.im, b.im)),
                      RAdd(RMul(a.re, b.im), RMul(a.im, b.re)))
conj(a) == Complex(a.re, RNeg(a.im))

\* u32 arithmetic on <<hi, lo>>.
U32Zero == <<0, 0>>
\* u32::wrapping_add(1)
wrapping_add1(x) ==
    IF x[2] + 1 < Half THEN <<x[1], x[2] + 1>>
    ELSE <<(x[1] + 1) % Half, 0>>
\* x >= n for 0 <= n < 2^16
U32Ge(x, n) == x[1] > 0 \/ x[2] >= n
\* x & (m - 1) for m a power of two, m <= 2^16
U32Mask(x, m) == x[2] % m

\* 2*cos and 2*sin of e eighth-turns (e * 2*pi/8), e any integer.
Cos2Table ==
    <<<<2, 0>>, <<0, 1>>, <<0, 0>>, <<0, 0 - 1>>,
      <<0 - 2, 0>>, <<0, 0 - 1>>, <<0, 0>>, <<0, 1>>>>
Cos2Eighth(e) == Cos2Table[(e % 8) + 1]
Sin2Eighth(e) == Cos2Eighth(e - 2)
\* 2*cos(2*pi*k/n) and 2*sin(2*pi*k/n) for n in {4, 8}.
Cos2(k, n) == Cos2Eighth(k * (8 \div n))
Sin2(k, n) == Sin2Eighth(k * (8 \div n))

\* Sum of f[i] over lo..hi for a function f of reals / complex numbers.
RECURSIVE RSum(_, _, _)
RSum(f, lo, hi) == IF lo > hi THEN RZero ELSE RAdd(f[lo], RSum(f, lo + 1, hi))
RECURSIVE CSum(_, _, _)
CSum(f, lo, hi) == IF lo > hi THEN CZero ELSE CAdd(f[lo], CSum(f, lo + 1, hi))

(***************************************************************************)
(* The real-FFT capability (RealFft::fft / RealFft::ifft, which call       *)
(* arm_rfft_fast_f32).  Slices are functions on 0..len-1.                  *)
(*                                                                         *)
(* fft writes complex_size() = n/2 packed values: dest[0] holds the DC     *)
(* term in re and the Nyquist term in im, dest[k] holds bin k for          *)
(* 0 < k < n/2; what lies beyond complex_size() in dest is left alone.     *)
(* The twiddle factors are carried doubled, so dest is src scaled by 2.    *)
(***************************************************************************)
real_size(n) == n
complex_size(n) == n \div 2

\* Bin k of the discrete Fourier transform of src[0..n-1], doubled.
Dft2(src, n, k) ==
    CSum([i \in 0..(n - 1) |->
            Complex(RMul(src[i], Cos2(i * k, n)),
                    RNeg(RMul(src[i], Sin2(i * k, n))))],
         0, n - 1)

fft(src, dest, n) ==
    [k \in DOMAIN dest |->
        IF k = 0 THEN Complex(Dft2(src, n, 0).re, Dft2(src, n, n \div 2).re)
        ELSE IF k < complex_size(n) THEN Dft2(src, n, k)
        ELSE dest[k]]

\* The forward transform works in place on src before it writes dest: src is
\* left holding intermediate values.  They are modelled by a value no sample
\* of the model takes, so that a later read of a stale position shows.
Clobbered == <<1000, 1000>>
fft_src(src, n) == [i \in DOMAIN src |-> IF i < real_size(n) THEN Clobbered ELSE src[i]]

\* ifft reads the n/2 packed values of src and writes n real samples:
\* n * x[i] = X0 + (-1)^i XN + 2 Re sum_{0<k<n/2} X[k] e^(2 pi i k/n),
\* carried here as 2 * n * x[i] (doubled twiddles again); the real part of
\* X[k] * (cos + i sin) is X[k].re * cos - X[k].im * sin.
ifft(src, dest, n) ==
    [i \in DOMAIN dest |->
        IF i < real_size(n)
        THEN LET dc  == src[0].re
                 nyq == src[0].im
                 mid == RSum([k \in 1..(n \div 2 - 1) |->
                                RSub(RMul(src[k].re, Cos2(i * k, n)),
                                     RMul(src[k].im, Sin2(i * k, n)))],
                             1, n \div 2 - 1)
             IN  RAdd(RAdd(RScale(2, dc),
                           RScale(IF i % 2 = 0 THEN 2 ELSE 0 - 2, nyq)),
                      RScale(2, mid))
        ELSE dest[i]]

(***************************************************************************)
(* State.                                                                  *)
(***************************************************************************)
VARIABLES
    window_length,   \* Resynth.window_length
    window,          \* Resynth.window: 0..WINDOWS-1 -> FftWindow
    window_function, \* Resynth.window_function: the Hann table
    samples,         \* Resynth.samples, u32
    processing,      \* Resynth.processing: which closure
    fed,             \* history: the input frames of the ticks since new()/reset()
    outs,            \* history: the output frames those ticks returned
    transformed,     \* history: the windows transformed by the latest tick
    cycled,          \* history: the windows transformed since new()/reset()
    ticks,           \* history: ticks since new()
    pulses,          \* history: non-zero samples fed since new()
    seen,            \* history: the windows the latest tick handed to the callback
    capability,      \* Resynth.fft: the real_size() of the RealFft given to new()
    failure,         \* "none", or the call that panicked: "new" or "tick"
    source,          \* a Buffer built by any constructor (or NoBuffer)
    dest,            \* a Buffer allocated by Buffer::new (or NoBuffer)
    back,            \* a second Buffer allocated by Buffer::new (or NoBuffer)
    view,            \* what the latest left()/right() call returned
    conv,            \* history: the latest conversion of one sample
    call,            \* history: the latest Buffer call and its arguments
    outcome,         \* "ok", or "panic" once a call has panicked
    overflow_checks, \* the build: TRUE when arithmetic overflow panics
    pv,              \* ProgramVector: whether pv.serviceCall is Some
    rfft,            \* history: the latest fft_real call and what it returned
    TAKEN,           \* static TAKEN: AtomicBool
    PROGRAM_VECTOR,  \* static PROGRAM_VECTOR: checksum, programStatus, error, message
    callers,         \* the calls of ProgramVector::instance(): where each one stands
    interp,          \* history: the latest interpolation call and what it returned
    stored,          \* sample_buffer/: the Frame or Channels built, and what was asked of it
    audio            \* AudioBuffers::run: where it is, its buffers and the host blocks

engine == <<window_length, window, window_function, samples, processing, fed, outs,
            transformed, cycled, ticks, pulses, seen, capability, failure>>
buffers == <<source, dest, back, view, conv, call, outcome, overflow_checks>>
host == <<pv, rfft, TAKEN, PROGRAM_VECTOR, callers, interp, stored, audio>>
vars == <<engine, buffers, host>>

(***************************************************************************)
(* FftWindow.                                                              *)
(***************************************************************************)
\* FftWindow::bins
bins(length) == (length \div 2) + 1

\* FftWindow::new(length, index, inputs, outputs)
FftWindow_new(length, index, inputs, outputs) ==
    [ length     |-> length,
      input      |-> [c \in 0..(inputs - 1) |-> [i \in 0..(length - 1) |-> RZero]],
      input_fft  |-> [c \in 0..(inputs - 1) |-> [i \in 0..(bins(length) - 1) |-> CZero]],
      output_fft |-> [c \in 0..(outputs - 1) |-> [i \in 0..(length - 1) |-> CZero]],
      output     |-> [c \in 0..(outputs - 1) |-> [i \in 0..(length - 1) |-> RZero]],
      index      |-> index,
      samples    |-> U32Zero ]

\* Mutant of write: the sample is stored without the window gain.
write_unwindowed(w, input, window_value) ==
    [w EXCEPT !.input = [c \in DOMAIN w.input |->
        [w.input[c] EXCEPT ![w.index] = RInt(input[c])]]]

\* FftWindow::write: input[channel][index] = item * window_value
write(w, input, window_value) ==
    [w EXCEPT !.input = [c \in DOMAIN w.input |->
        [w.input[c] EXCEPT ![w.index] = RScale(input[c], window_value)]]]

\* Mutant of read: the ring is read one position ahead of the write index.
read_ahead(w, window_value) ==
    [c \in DOMAIN w.output |-> RMul(w.output[c][(w.index + 1) % w.length], window_value)]

\* FftWindow::read: Frame::generate(|channel| output[channel][index] * window_value)
read(w, window_value) ==
    [c \in DOMAIN w.output |-> RMul(w.output[c][w.index], window_value)]

\* Mutant of advance: the index is not masked.
advance_unmasked(w) ==
    [w EXCEPT !.samples = wrapping_add1(w.samples),
              !.index = w.index + 1]

\* FftWindow::advance
advance(w) ==
    [w EXCEPT !.samples = wrapping_add1(w.samples),
              !.index = (w.index + 1) % w.length]

\* Mutant of is_fft_time: the index is not tested.
is_fft_time_any_index(w) == U32Ge(w.samples, w.length)
\* Mutant of is_fft_time: the fill count is not tested.
is_fft_time_no_fill(w) == w.index = 0

\* FftWindow::is_fft_time
is_fft_time(w) == w.index = 0 /\ U32Ge(w.samples, w.length)

\* Mutant of clear_output: nothing is cleared.
clear_output_skipped(w) == w

\* FftWindow::clear_output
clear_output(w) ==
    [w EXCEPT !.output_fft = [c \in DOMAIN w.output_fft |->
        [i \in DOMAIN w.output_fft[c] |-> CZero]]]

\* FftWindow::extend_values
extend_values(w) ==
    [w EXCEPT !.output_fft = [c \in DOMAIN w.output_fft |->
        [i \in DOMAIN w.output_fft[c] |->
            IF i >= w.length \div 2 + 1
            THEN conj(w.output_fft[c][w.length - i])
            ELSE w.output_fft[c][i]]]]

\* Mutant of FftWindow_reset: the window keeps its index.
FftWindow_reset_keeps_index(w, start_index) ==
    [w EXCEPT !.samples = U32Zero,
              !.input = [c \in DOMAIN w.input |-> [i \in DOMAIN w.input[c] |-> RZero]],
              !.output = [c \in DOMAIN w.output |-> [i \in DOMAIN w.output[c] |-> RZero]]]

\* Mutant of FftWindow_reset: the output ring is not cleared.
FftWindow_reset_keeps_output(w, start_index) ==
    [w EXCEPT !.samples = U32Zero,
              !.index = start_index,
              !.input = [c \in DOMAIN w.input |-> [i \in DOMAIN w.input[c] |-> RZero]]]

\* FftWindow::reset(start_index)
FftWindow_reset(w, start_index) ==
    [w EXCEPT !.samples = U32Zero,
              !.index = start_index,
              !.input = [c \in DOMAIN w.input |-> [i \in DOMAIN w.input[c] |-> RZero]],
              !.output = [c \in DOMAIN w.output |-> [i \in DOMAIN w.output[c] |-> RZero]]]

\* FftWindow::set(channel, i, value)
set(w, channel, i, value) == [w EXCEPT !.output_fft[channel][i] = value]
\* FftWindow::at(channel, i)
at(w, channel, i) == w.input_fft[channel][i]

(***************************************************************************)
(* Resynth.                                                                *)
(***************************************************************************)
\* Mutant of the Hann table: the phase offset L/2 is left out.
window_function_no_offset(L) ==
    [i \in 0..(L - 1) |-> RAdd(RInt(2), Cos2(i, L))]
\* Mutant of the Hann table: hann = 1.0 + 1.0*cos(...).
window_function_doubled(L) ==
    [i \in 0..(L - 1) |-> RAdd(RInt(4), RScale(2, Cos2(i - (L \div 2), L)))]

\* The Hann table of Resynth::new, hann = 0.5 + 0.5*cos((i - L/2) * TAU / L),
\* carried as HannDen * hann = 2 + 2*cos(...).
HannDen == 4
Resynth_new_window_function(L) ==
    [i \in 0..(L - 1) |-> RAdd(RInt(2), Cos2(i - (L \div 2), L))]

\* z: 2.0 / 3.0
ZNum == 2
ZDen == 3

\* Denominators of the stored values, for window length L:
\*   input ring        HannDen
\*   input_fft         2 * HannDen          (doubled twiddles)
\*   output ring       4 * HannDen * L      (doubled twiddles, ifft carried times L)
\*   returned frame    4 * HannDen * L * HannDen * ZDen
SpectrumDen == 2 * HannDen
FrameDen(L) == 4 * HannDen * L * HannDen * ZDen

\* The processing closures.
\* build_network: for i in 0..fft.bins() { fft.set(0, i, fft.at(0, i)) }
RECURSIVE copy_bins(_, _)
copy_bins(w, i) ==
    IF i >= bins(w.length) THEN w
    ELSE copy_bins(set(w, 0, i, at(w, 0, i)), i + 1)

Processing(kind, w) ==
    CASE kind = "copy" -> copy_bins(w, 0)
      [] kind = "none" -> w
      [] kind = "dc"   -> set(w, 0, 0, Complex(RInt(SpectrumDen), RZero))

\* Mutant of Resynth::new: the windows are not staggered.
Resynth_new_window_unstaggered(L) ==
    [k \in 0..(WINDOWS - 1) |-> FftWindow_new(L, 0, Inputs, Outputs)]

\* Resynth::new: the four windows.
Resynth_new_window(L) ==
    [k \in 0..(WINDOWS - 1) |->
        FftWindow_new(L,
                      CASE k = 0 -> 0
                        [] k = 1 -> L \div 4
                        [] k = 2 -> L \div 2
                        [] k = 3 -> (L \div 2) + (L \div 4),
                      Inputs, Outputs)]

\* Mutant of the first loop of tick: advance before write.
tick_window_advance_first(w, input, hann) ==
    write(advance(w), input, hann[advance(w).index])

\* The first loop of tick for one window: write, read, advance.
tick_window(w, input, hann) ==
    advance(write(w, input, hann[w.index]))

\* The frame the first loop of tick accumulates:
\* output += window.read(window_value * z) for every window.
tick_output(win, hann) ==
    [c \in 0..(Outputs - 1) |->
        RSum([k \in 0..(WINDOWS - 1) |->
                read(win[k], RScale(ZNum, hann[win[k].index]))[c]],
             0, WINDOWS - 1)]

\* The forward transforms of one window: fft(input, input_fft) per channel.
forward(w) ==
    [w EXCEPT !.input_fft = [c \in DOMAIN w.input_fft |->
                                fft(w.input[c], w.input_fft[c], w.length)],
              !.input = [c \in DOMAIN w.input |-> fft_src(w.input[c], w.length)]]

\* The inverse transforms of one window: ifft(output_fft, output) per channel.
inverse(w) ==
    [w EXCEPT !.output = [c \in DOMAIN w.output |->
                             ifft(w.output_fft[c], w.output[c], w.length)]]

\* The window as tick hands it to the processing callback: after the forward
\* transforms and clear_output.
callback_window(w) == clear_output(forward(w))

\* What tick's second loop shows of one window w: the input ring as the
\* forward transform found it, and the window cw as the callback found it.
Seen(w, cw) == [input |-> w.input, window |-> cw]

\* Mutant of the loop body: the inverse transforms run before the callback.
inverse_before_callback(cw, kind) == Processing(kind, inverse(extend_values(cw)))

\* The rest of the loop body, from the callback on.
callback_and_inverse(cw, kind) == inverse(extend_values(Processing(kind, cw)))

\* The body of tick's second loop for one window.
transform(w, kind) == callback_and_inverse(callback_window(w), kind)

\* Whether tick's hop test passes: samples & ((window_length >> 2) - 1) == 0.
hop_boundary(n, L) == U32Mask(n, L \div 4) = 0

\* The failure paths of tick.  A slice is a function on 0..len-1; indexing it
\* outside its domain panics.
slice_len(slice) == Cardinality(DOMAIN slice)

\* (window_length as u32 >> 2) - 1 underflows when window_length < 4; the
\* subtraction panics in a build with overflow checks.
hop_mask_underflows(length) == (length \div 4) = 0

\* The first loop of tick for one window: window_function[window.index()],
\* write (input[channel][index]), read (output[channel][index]), and the
\* mask length - 1 of advance.
tick_window_panics(w, input, hann, checks) ==
    \/ w.index \notin DOMAIN hann
    \/ \E c \in DOMAIN input : c \notin DOMAIN w.input \/ w.index \notin DOMAIN w.input[c]
    \/ \E c \in 0..(Outputs - 1) : c \notin DOMAIN w.output \/ w.index \notin DOMAIN w.output[c]
    \/ (w.length = 0 /\ checks)

\* RealFft::fft asserts src.len() >= real_size() and dest.len() >= complex_size().
fft_panics(src, dst, n) == slice_len(src) < real_size(n) \/ slice_len(dst) < complex_size(n)
\* RealFft::ifft asserts src.len() >= complex_size() and dest.len() >= real_size().
ifft_panics(src, dst, n) == slice_len(src) < complex_size(n) \/ slice_len(dst) < real_size(n)

\* The bins a closure reads with at() and writes with set(), on channel 0.
Processing_panics(kind, w) ==
    CASE kind = "copy" -> \/ 0 \notin DOMAIN w.input_fft
                          \/ 0 \notin DOMAIN w.output_fft
                          \/ \E i \in 0..(bins(w.length) - 1) :
                                \/ i \notin DOMAIN w.input_fft[0]
                                \/ i \notin DOMAIN w.output_fft[0]
      [] kind = "none" -> FALSE
      [] kind = "dc"   -> 0 \notin DOMAIN w.output_fft \/ 0 \notin DOMAIN w.output_fft[0]

\* extend_values: output_fft[channel][i] = output_fft[channel][length - i]
extend_values_panics(w) ==
    \E c \in DOMAIN w.output_fft :
        \E i \in (w.length \div 2 + 1)..(w.length - 1) :
            i \notin DOMAIN w.output_fft[c] \/ (w.length - i) \notin DOMAIN w.output_fft[c]

\* The body of tick's second loop for one window, n the capability's size.
transform_panics(w, kind, n) ==
    \/ \E c \in 0..(Inputs - 1) :
          c \notin DOMAIN w.input \/ c \notin DOMAIN w.input_fft
          \/ fft_panics(w.input[c], w.input_fft[c], n)
    \/ Processing_panics(kind, w)
    \/ extend_values_panics(w)
    \/ \E c \in 0..(Outputs - 1) :
          c \notin DOMAIN w.output_fft \/ c \notin DOMAIN w.output
          \/ ifft_panics(w.output_fft[c], w.output[c], n)

(***************************************************************************)
(* Sample buffers (src/sample_buffer.rs).                                  *)
(*                                                                         *)
(* A Buffer is a record of its storage pattern, its sample type, its flat  *)
(* sample storage (index p of the slice is samples[p + 1]) and its         *)
(* channels and blocksize fields.                                          *)
(*                                                                         *)
(* Numbers.  An i32 sample is an integer.  A finite f32 sample is the pair *)
(* <<m, e>> that stands for m * 2^e, with m odd and |m| < 2^24, or <<0,0>>.*)
(* A usize is 32 bits wide on the target (Cortex-M); a product of two      *)
(* usizes is computed on 16-bit halves.                                    *)
(***************************************************************************)
\* Largest channel count and block size of a constructor call (besides Half).
MaxDim == 2
\* Longest sample storage.
MaxLen == 4

StoragePatterns == {"Mono", "Channels", "Interleaved"}
Items == {"i32", "f32"}
I32Max == 2147483647
I32Min == (0 - I32Max) - 1
\* The sample values storage is filled with.
I32Samples == {0, 16777217, I32Min}
F32Samples == {<<0, 0>>, <<1, 0>>, <<0 - 1, 0 - 1>>}
SampleValues(item) == IF item = "i32" THEN I32Samples ELSE F32Samples
\* F::default()
Default(item) == IF item = "i32" THEN 0 ELSE <<0, 0>>
\* The channel counts and block sizes a constructor is called with.
Dims == (0..MaxDim) \cup {Half}
Slices(item) == UNION {[1..n -> SampleValues(item)] : n \in 0..MaxLen}

Abs(x) == IF x < 0 THEN 0 - x ELSE x
Sign(x) == IF x < 0 THEN 0 - 1 ELSE 1
RECURSIVE Pow2(_)
Pow2(k) == IF k = 0 THEN 1 ELSE 2 * Pow2(k - 1)
RECURSIVE BitLen(_)
BitLen(a) == IF a = 0 THEN 0 ELSE 1 + BitLen(a \div 2)
RECURSIVE F32Norm(_, _)
F32Norm(m, e) ==
    IF m = 0 THEN <<0, 0>>
    ELSE IF m % 2 = 0 THEN F32Norm(m \div 2, e + 1)
    ELSE <<m, e>>

\* The same cast with the dropped bits cut off instead of rounded.
i32_as_f32_truncating(v) ==
    IF v = I32Min THEN <<0 - 1, 31>>
    ELSE LET a == Abs(v)
             k == BitLen(a) - 24
         IN  IF k <= 0 THEN F32Norm(v, 0)
             ELSE F32Norm(Sign(v) * (a \div Pow2(k)), k)

\* `v as f32`: round to nearest, ties to even, on a 24-bit significand.
i32_as_f32(v) ==
    IF v = I32Min THEN <<0 - 1, 31>>
    ELSE LET a == Abs(v)
             k == BitLen(a) - 24
         IN  IF k <= 0 THEN F32Norm(v, 0)
             ELSE LET q    == a \div Pow2(k)
                      r    == a % Pow2(k)
                      half == Pow2(k - 1)
                      up   == r > half \/ (r = half /\ q % 2 = 1)
                  IN  F32Norm(Sign(v) * (q + (IF up THEN 1 ELSE 0)), k)

\* x * 2^p in f32.  Exact: an i32 times 2^-31 cannot underflow, and an
\* overflow to infinity saturates in f32_as_i32 just as the exact product.
f32_mul_pow2(x, p) == IF x[1] = 0 THEN x ELSE <<x[1], x[2] + p>>

\* `x as i32`: truncate toward zero, saturate at the ends of the range.
f32_as_i32(x) ==
    LET m == x[1]
        e == x[2]
    IN  IF m = 0 THEN 0
        ELSE IF e >= 0
        THEN IF e >= 8 /\ (e >= 31 \/ Abs(m) >= Pow2(31 - e))
             THEN (IF m > 0 THEN I32Max ELSE I32Min)
             ELSE m * Pow2(e)
        ELSE IF 0 - e >= 24 THEN 0
        ELSE Sign(m) * (Abs(m) \div Pow2(0 - e))

\* ConvertInto<f32> for i32 and ConvertInto<i32> for f32
i32_convert_into_f32(v) == f32_mul_pow2(i32_as_f32(v), 0 - 31)
f32_convert_into_i32(x) == f32_as_i32(f32_mul_pow2(x, 31))

\* ConvertFrom<from> for to: the value a sample of type `to` is set to.
convert_sample(from, to, v) ==
    IF from = to THEN v
    ELSE IF from = "i32" THEN i32_convert_into_f32(v)
    ELSE f32_convert_into_i32(v)

\* x * y as <<hi, lo>> halves, for x, y < 2^16.
Mul16(x, y) ==
    LET p1  == x * (y \div 256)
        p0  == x * (y % 256)
        mid == (p1 % 256) * 256 + p0
    IN  <<(p1 \div 256) + (mid \div Half), mid % Half>>

\* channels * blocksize on usize: the product modulo 2^32 as halves, and
\* whether the mathematical product does not fit.
usize_mul(a, b) ==
    LET ah == a \div Half
        al == a % Half
        bh == b \div Half
        bl == b % Half
        ll == Mul16(al, bl)
        hl == Mul16(ah, bl)
        lh == Mul16(al, bh)
        hi == ll[1] + hl[2] + lh[2]
    IN  [wrapped  |-> <<hi % Half, ll[2]>>,
         overflow |-> ah * bh > 0 \/ hl[1] > 0 \/ lh[1] > 0 \/ hi >= Half]
usize(n) == <<n \div Half, n % Half>>

(***************************************************************************)
(* Sample arithmetic: the in-place operators of impl_op! on one sample.    *)
(* i32: +, - and * panic on overflow in a build with overflow checks and   *)
(* wrap otherwise; / and % panic on a zero divisor and on MIN / -1 in      *)
(* every build.  f32: round to nearest, ties to even; NaN is <<0, 1>> and  *)
(* plus and minus infinity are <<1, 1000>> and <<-1, 1000>>; the operands  *)
(* are finite, the sign of a zero is not kept, and the quotient is exact   *)
(* to the last place for divisors with a significand below 16.             *)
(***************************************************************************)
Ops == {"add_assign", "sub_assign", "mul_assign", "div_assign", "rem_assign"}
\* The scalars an operator is applied with.
I32Scalars == {0, 2, 0 - 1}
F32Scalars == {<<0, 0>>, <<3, 0>>, <<0 - 1, 0 - 1>>}
Scalars(item) == IF item = "i32" THEN I32Scalars ELSE F32Scalars

\* An i32 as the two halves of its two's complement word, and back.
ToU32(a) == <<(a \div Half) % Half, a % Half>>
FromU32(u) ==
    IF u[1] >= Half \div 2 THEN (u[1] - Half) * Half + u[2] ELSE u[1] * Half + u[2]

i32_wrapping_add(a, k) ==
    LET u  == ToU32(a)
        v  == ToU32(k)
        lo == u[2] + v[2]
    IN  FromU32(<<(u[1] + v[1] + (lo \div Half)) % Half, lo % Half>>)
i32_wrapping_sub(a, k) ==
    LET u  == ToU32(a)
        v  == ToU32(k)
        lo == u[2] - v[2]
    IN  FromU32(<<(u[1] - v[1] - (IF lo < 0 THEN 1 ELSE 0)) % Half, lo % Half>>)
i32_wrapping_mul(a, k) ==
    LET u  == ToU32(a)
        v  == ToU32(k)
        ll == Mul16(u[2], v[2])
        hl == Mul16(u[1], v[2])
        lh == Mul16(u[2], v[1])
    IN  FromU32(<<(ll[1] + hl[2] + lh[2]) % Half, ll[2]>>)

\* |a| divided by d, for 2 <= d: <<quotient, remainder>>.
AbsDivMod(a, d) ==
    IF a = I32Min
    THEN <<(I32Max \div d) + (IF I32Max % d = d - 1 THEN 1 ELSE 0), ((I32Max % d) + 1) % d>>
    ELSE <<Abs(a) \div d, Abs(a) % d>>
\* a / k and a % k of i32 (toward zero; the remainder has the sign of a),
\* for k # 0, k # i32::MIN and not MIN / -1.
i32_div(a, k) ==
    IF k = 1 THEN a
    ELSE IF k = 0 - 1 THEN 0 - a
    ELSE Sign(a) * Sign(k) * AbsDivMod(a, Abs(k))[1]
i32_rem(a, k) ==
    IF Abs(k) = 1 THEN 0 ELSE Sign(a) * AbsDivMod(a, Abs(k))[2]

i32_overflows(op, a, k) ==
    CASE op = "add_assign" ->
            LET r == i32_wrapping_add(a, k)
            IN  (a >= 0 /\ k >= 0 /\ r < 0) \/ (a < 0 /\ k < 0 /\ r >= 0)
      [] op = "sub_assign" ->
            LET r == i32_wrapping_sub(a, k)
            IN  (a >= 0 /\ k < 0 /\ r < 0) \/ (a < 0 /\ k >= 0 /\ r >= 0)
      [] op = "mul_assign" ->
            LET r == i32_wrapping_mul(a, k)
            IN  /\ a # 0 /\ k # 0
                /\ \/ (a = I32Min /\ k = 0 - 1)
                   \/ (k = I32Min /\ a # 1)
                   \/ (k # I32Min /\ (i32_div(r, k) # a \/ i32_rem(r, k) # 0))
      [] OTHER -> a = I32Min /\ k = 0 - 1

i32_op_panics(op, a, k, checks) ==
    IF op \in {"div_assign", "rem_assign"}
    THEN k = 0 \/ i32_overflows(op, a, k)
    ELSE checks /\ i32_overflows(op, a, k)

i32_op(op, a, k) ==
    CASE op = "add_assign" -> i32_wrapping_add(a, k)
      [] op = "sub_assign" -> i32_wrapping_sub(a, k)
      [] op = "mul_assign" -> i32_wrapping_mul(a, k)
      [] op = "div_assign" -> i32_div(a, k)
      [] OTHER -> i32_rem(a, k)

F32NaN == <<0, 1>>
F32Inf(sign) == <<sign, 1000>>
Min(a, b) == IF a < b THEN a ELSE b
\* m * 2^e (with more non-zero bits below when sticky) rounded to f32.
F32Round(m, e, sticky) ==
    LET a == Abs(m)
        k == BitLen(a) - 24
    IN  IF k <= 0 THEN F32Norm(m, e)
        ELSE LET q    == a \div Pow2(k)
                 r    == a % Pow2(k)
                 half == Pow2(k - 1)
                 up   == r > half \/ (r = half /\ (sticky \/ q % 2 = 1))
             IN  F32Norm(Sign(m) * (q + (IF up THEN 1 ELSE 0)), e + k)

f32_add(x, y) ==
    LET e == Min(x[2], y[2])
    IN  F32Round(x[1] * Pow2(x[2] - e) + y[1] * Pow2(y[2] - e), e, FALSE)
f32_sub(x, y) == f32_add(x, <<0 - y[1], y[2]>>)
f32_mul(x, y) == F32Round(x[1] * y[1], x[2] + y[2], FALSE)
f32_div(x, y) ==
    IF y[1] = 0 THEN (IF x[1] = 0 THEN F32NaN ELSE F32Inf(Sign(x[1])))
    ELSE IF x[1] = 0 THEN x
    ELSE LET s == 30 - BitLen(Abs(x[1]))
             n == Abs(x[1]) * Pow2(s)
         IN  F32Round(Sign(x[1]) * Sign(y[1]) * (n \div Abs(y[1])),
                      x[2] - y[2] - s, n % Abs(y[1]) # 0)
f32_rem(x, y) ==
    IF y[1] = 0 THEN F32NaN
    ELSE LET e == Min(x[2], y[2])
             a == Abs(x[1]) * Pow2(x[2] - e)
             b == Abs(y[1]) * Pow2(y[2] - e)
         IN  F32Norm(Sign(x[1]) * (a % b), e)

f32_op(op, x, k) ==
    CASE op = "add_assign" -> f32_add(x, k)
      [] op = "sub_assign" -> f32_sub(x, k)
      [] op = "mul_assign" -> f32_mul(x, k)
      [] op = "div_assign" -> f32_div(x, k)
      [] OTHER -> f32_rem(x, k)

\* (*s).$assign_method(rhs) on one sample of type item.
sample_op(item, op, a, k) == IF item = "i32" THEN i32_op(op, a, k) ELSE f32_op(op, a, k)
sample_op_panics(item, op, a, k, checks) ==
    item = "i32" /\ i32_op_panics(op, a, k, checks)

Buffer(storage, item, samples_, channels, blocksize) ==
    [storage |-> storage, item |-> item, samples |-> samples_,
     channels |-> channels, blocksize |-> blocksize, mutable |-> TRUE]
\* The same over a shared slice (&[F]): not a MutableContainer.
Shared(buffer) == [buffer EXCEPT !.mutable = FALSE]
NoBuffer == Buffer("None", "None", <<>>, 0, 0)
Call(op, channels, blocksize, len) ==
    [op |-> op, channels |-> channels, blocksize |-> blocksize, len |-> len]

\* One sample converted: what was given, the float on the way (for a
\* round trip), and what came out.
Conv(op, given, float, result) ==
    [op |-> op, given |-> given, float |-> float, result |-> result]

NoBuffers ==
    /\ source = NoBuffer
    /\ dest = NoBuffer
    /\ back = NoBuffer
    /\ view = NoBuffer
    /\ conv = Conv("none", 0, <<0, 0>>, 0)
    /\ call = Call("none", 0, 0, 0)
    /\ outcome = "ok"

\* slice.chunks(size), for size > 0: the chunks in order, the last one short
\* when size does not divide the length.
chunks(slice, size) ==
    LET n == (Len(slice) + size - 1) \div size
    IN  [c \in 1..n |->
            SubSeq(slice, (c - 1) * size + 1,
                   IF c * size < Len(slice) THEN c * size ELSE Len(slice))]

\* The same without skip(n): every channel is written from slot 0.
write_channel_no_skip(samples_, n, step, ch, from, to) ==
    [p \in 1..Len(samples_) |->
        IF (p - 1) % step = 0 /\ (p - 1) \div step < Len(ch)
        THEN convert_sample(from, to, ch[((p - 1) \div step) + 1])
        ELSE samples_[p]]

\* samples.iter_mut().skip(n).step_by(step).zip(ch).for_each(convert_from):
\* the k-th sample of ch lands at index n + k*step, while both exist.
write_channel(samples_, n, step, ch, from, to) ==
    [p \in 1..Len(samples_) |->
        IF p - 1 >= n /\ (p - 1 - n) % step = 0 /\ (p - 1 - n) \div step < Len(ch)
        THEN convert_sample(from, to, ch[((p - 1 - n) \div step) + 1])
        ELSE samples_[p]]

\* for (n, ch) in other.channels().enumerate() { ... }
RECURSIVE write_channels(_, _, _, _, _, _)
write_channels(samples_, n, step, chs, from, to) ==
    IF n >= Len(chs) THEN samples_
    ELSE write_channels(write_channel(samples_, n, step, chs[n + 1], from, to),
                        n + 1, step, chs, from, to)

\* Whether Buffer<Interleaved>::convert_from(&Buffer<Channels>) panics:
\* the assertion, chunks(0), or step_by(0) once the loop body runs.
convert_from_panics(self, other) ==
    \/ self.channels # other.channels
    \/ other.blocksize = 0
    \/ (self.channels = 0 /\ Len(other.samples) > 0)

\* ConvertFrom<&Buffer<Channels, C2>> for Buffer<Interleaved, C1>
convert_from(self, other) ==
    [self EXCEPT !.samples =
        write_channels(self.samples, 0, self.channels,
                       chunks(other.samples, other.blocksize),
                       other.item, self.item)]

\* The same leaving every second sample as it is.
op_assign_every_other(self, op, rhs) ==
    [self EXCEPT !.samples =
        [p \in DOMAIN self.samples |->
            IF p % 2 = 1 THEN sample_op(self.item, op, self.samples[p], rhs)
            ELSE self.samples[p]]]

\* $assign_trait<F> for Buffer<S, C>:
\*   for s in self.samples_mut() { (*s).$assign_method(rhs); }
op_assign(self, op, rhs) ==
    [self EXCEPT !.samples =
        [p \in DOMAIN self.samples |-> sample_op(self.item, op, self.samples[p], rhs)]]
op_assign_panics(self, op, rhs, checks) ==
    \E p \in DOMAIN self.samples :
        sample_op_panics(self.item, op, self.samples[p], rhs, checks)

\* The same reading other.samples in order, without skip(n).step_by(..).
read_channel_in_order(ch, n, step, samples_, from, to) ==
    [k \in 1..Len(ch) |->
        IF k - 1 < Len(samples_)
        THEN convert_sample(from, to, samples_[k])
        ELSE ch[k]]

\* other.samples.iter().skip(n).step_by(step).zip(ch.samples_mut())
\*     .for_each(convert_from): sample k of channel ch is set from index
\* n + k*step of the interleaved samples, while both exist.
read_channel(ch, n, step, samples_, from, to) ==
    [k \in 1..Len(ch) |->
        IF n + (k - 1) * step < Len(samples_)
        THEN convert_sample(from, to, samples_[n + (k - 1) * step + 1])
        ELSE ch[k]]

\* for (n, mut ch) in self.channels_mut().enumerate() { ... }: the chunks
\* of self, each rewritten in place, in storage order.
RECURSIVE read_channels(_, _, _, _, _, _)
read_channels(chs, n, step, samples_, from, to) ==
    IF n >= Len(chs) THEN <<>>
    ELSE read_channel(chs[n + 1], n, step, samples_, from, to)
         \o read_channels(chs, n + 1, step, samples_, from, to)

\* Whether Buffer<Channels>::convert_from(&Buffer<Interleaved>) panics:
\* the assertion, chunks_mut(0), or step_by(0) once the loop body runs.
convert_from_interleaved_panics(self, other) ==
    \/ self.channels # other.channels
    \/ self.blocksize = 0
    \/ (other.channels = 0 /\ Len(self.samples) > 0)

\* ConvertFrom<&Buffer<Interleaved, C2>> for Buffer<Channels, C1>
convert_from_interleaved(self, other) ==
    [self EXCEPT !.samples =
        read_channels(chunks(self.samples, self.blocksize), 0, other.channels,
                      other.samples, other.item, self.item)]


(***************************************************************************)
(* The FFT provider (src/program_vector/fft.rs, service_call.rs).  The     *)
(* host is the firmware behind pv.serviceCall: it returns a status and     *)
(* writes what it likes into the instance.  The size it is handed is a     *)
(* copy local to init_rfft; fft_real compares with its own argument.       *)
(***************************************************************************)
\* enum FftSize
FftSizes == {32, 64, 128, 256, 512, 1024, 2048, 4096}
\* The status the host returns.
Statuses == {"OWL_SERVICE_OK", "error", "another error"}
\* What the host leaves in instance.fftLenRFFT (a u16): a zeroed instance
\* stays 0.
FftLens == {0, 16, 65535} \cup FftSizes
\* One behaviour of the host for one call.
Hosts == [ret : Statuses, fftLenRFFT : FftLens]

Ok(value) == [is |-> "Ok", value |-> value, err |-> ""]
Err(message) == [is |-> "Err", value |-> "None", err |-> message]

\* MaybeUninit::<arm_rfft_fast_instance_f32>::zeroed()
zeroed == [fftLenRFFT |-> 0]

\* ServiceCall::service_call: the status of the host, or no call at all.
service_call(vector, h) ==
    IF ~vector.serviceCall THEN Err("service call not available")
    ELSE IF h.ret = "OWL_SERVICE_OK" THEN Ok("()")
    ELSE Err("service call returned error")

\* The instance after ServiceCall::init_rfft: the host has written it when
\* it was called.
init_rfft_instance(vector, instance, h) ==
    IF vector.serviceCall THEN [instance EXCEPT !.fftLenRFFT = h.fftLenRFFT]
    ELSE instance

\* ServiceCall::init_rfft(instance, size)
init_rfft(vector, instance, size, h) == service_call(vector, h)

\* RealFft::new(instance), with its real_size()
RealFft_new(instance) == [real_size |-> instance.fftLenRFFT]

\* Mutant of fft_real: the length of the instance is not checked.
fft_real_unchecked(vector, size, h) ==
    LET instance == init_rfft_instance(vector, zeroed, h)
        called   == init_rfft(vector, zeroed, size, h)
    IN  IF called.is = "Err" THEN called
        ELSE Ok(RealFft_new(instance))

\* ProgramVector::fft_real(size)
fft_real(vector, size, h) ==
    LET instance == init_rfft_instance(vector, zeroed, h)
        called   == init_rfft(vector, zeroed, size, h)
    IN  IF called.is = "Err" THEN called
        ELSE IF instance.fftLenRFFT # size
             THEN Err("rfft instance was not initialised")
             ELSE Ok(RealFft_new(instance))

\* No fft_real call yet.
NoRfft == [call |-> "none", size |-> 0, host |-> "None", result |-> Err("")]
\* Nobody has called ProgramVector::instance(); the host has written a
\* valid vector.
NoCallers ==
    /\ TAKEN = FALSE
    /\ PROGRAM_VECTOR = [checksum |-> "V11 or above", programStatus |-> TRUE,
                         error |-> "none", message |-> "none"]
    /\ callers = <<>>
    /\ interp = [op |-> "none"]
    /\ stored = [kind |-> "none"]
    /\ audio = [at |-> "none"]

NoHost ==
    /\ pv = [serviceCall |-> FALSE]
    /\ rfft = NoRfft
    /\ NoCallers

\* The engine as Resynth::new leaves it.
Resynth_new ==
    /\ window_length \in WindowLengths
    /\ processing \in Closures
    /\ window = Resynth_new_window(window_length)
    /\ window_function = Resynth_new_window_function(window_length)
    /\ samples = U32Zero
    /\ fed = <<>>
    /\ outs = <<>>
    /\ transformed = {}
    /\ cycled = {}
    /\ ticks = 0
    /\ pulses = 0
    /\ seen = <<>>
    /\ capability = window_length
    /\ failure = "none"

Init ==
    /\ Resynth_new
    /\ NoBuffers
    /\ NoHost
    /\ overflow_checks = FALSE

\* Whether tick(input) panics in the present state.
tick_panics(input) ==
    LET stepped == [k \in 0..(WINDOWS - 1) |->
                      tick_window(window[k], input, window_function)]
        n       == wrapping_add1(samples)
    IN  \/ \E k \in 0..(WINDOWS - 1) :
              tick_window_panics(window[k], input, window_function, overflow_checks)
        \/ (hop_mask_underflows(window_length) /\ overflow_checks)
        \/ /\ hop_boundary(n, window_length)
           /\ \E k \in 0..(WINDOWS - 1) :
                 /\ is_fft_time(stepped[k])
                 /\ transform_panics(stepped[k], processing, capability)

\* Resynth::tick(input)
Tick(input) ==
    LET hann    == window_function
        output  == tick_output(window, hann)
        stepped == [k \in 0..(WINDOWS - 1) |-> tick_window(window[k], input, hann)]
        n       == wrapping_add1(samples)
        due     == IF hop_boundary(n, window_length)
                   THEN {k \in 0..(WINDOWS - 1) : is_fft_time(stepped[k])}
                   ELSE {}
        called  == [k \in due |-> callback_window(stepped[k])]
        nonzero == Cardinality({c \in DOMAIN input : input[c] # 0})
    IN  /\ failure = "none"
        /\ ticks < MaxTicks
        /\ pulses + nonzero <= MaxPulses
        /\ IF tick_panics(input)
           THEN /\ failure' = "tick"
                /\ ticks' = ticks + 1
                /\ UNCHANGED <<window, samples, fed, outs, transformed, seen, cycled,
                               pulses>>
           ELSE /\ window' = [k \in 0..(WINDOWS - 1) |->
                                IF k \in due
                                THEN callback_and_inverse(called[k], processing)
                                ELSE stepped[k]]
                /\ samples' = n
                /\ fed' = Append(fed, input)
                /\ outs' = Append(outs, output)
                /\ transformed' = due
                /\ seen' = [k \in due |-> Seen(stepped[k], called[k])]
                /\ cycled' = cycled \cup due
                /\ ticks' = ticks + 1
                /\ pulses' = pulses + nonzero
                /\ UNCHANGED failure
        /\ UNCHANGED <<window_length, window_function, processing, capability>>
        /\ UNCHANGED <<buffers, host>>

\* Resynth::reset()
Reset ==
    /\ failure = "none"
    /\ samples' = U32Zero
    /\ window' = [k \in 0..(WINDOWS - 1) |->
                    FftWindow_reset(window[k], k * (window_length \div 4))]
    /\ fed' = <<>>
    /\ outs' = <<>>
    /\ transformed' = {}
    /\ cycled' = {}
    /\ seen' = <<>>
    /\ UNCHANGED <<window_length, window_function, processing, ticks, pulses,
                   capability, failure>>
    /\ UNCHANGED <<buffers, host>>

\* One run resets its engine at most once, at any time: until then every tick
\* since new() is in `fed`.
NeverReset == Len(fed) = ticks

Next ==
    \/ \E input \in [0..(Inputs - 1) -> Samples] : Tick(input)
    \/ NeverReset /\ Reset

Spec == Init /\ [][Next]_vars

(***************************************************************************)
(* The engine shortly before its 32-bit counters wrap.  Fed silence, the   *)
(* engine repeats itself every L ticks once every window has been          *)
(* transformed (from tick 2L on), the counters apart: tick reads them only *)
(* in the hop test (samples mod L/4) and in is_fft_time (samples >= L).    *)
(* So after 2^32 - L silent ticks the windows are those after 2L silent    *)
(* ticks, with the counters at 2^32 - L.                                   *)
(***************************************************************************)
silence == [c \in 0..(Inputs - 1) |-> 0]
\* The windows after one tick(input) that does not panic.
ticked_windows(win, n_samples, input, hann, kind) ==
    LET stepped == [k \in 0..(WINDOWS - 1) |-> tick_window(win[k], input, hann)]
        n       == wrapping_add1(n_samples)
    IN  [k \in 0..(WINDOWS - 1) |->
            IF hop_boundary(n, win[k].length) /\ is_fft_time(stepped[k])
            THEN transform(stepped[k], kind)
            ELSE stepped[k]]
RECURSIVE silent_ticks(_, _, _, _, _)
silent_ticks(win, n_samples, hann, kind, n) ==
    IF n = 0 THEN win
    ELSE CHOOSE after \in
             {silent_ticks(next, wrapping_add1(n_samples), hann, kind, n - 1) :
                 next \in {ticked_windows(win, n_samples, silence, hann, kind)}} : TRUE
\* 2^32 - n as a u32, for 0 < n <= 2^16
U32Before(n) == <<Half - 1, Half - n>>

InitWrap ==
    /\ window_length \in WindowLengths
    /\ processing \in Closures
    /\ window_function = Resynth_new_window_function(window_length)
    /\ samples = U32Before(window_length)
    /\ \E steady \in {silent_ticks(Resynth_new_window(window_length), U32Zero,
                                    window_function, processing, 2 * window_length)} :
           window = [k \in 0..(WINDOWS - 1) |->
                        [steady[k] EXCEPT !.samples = U32Before(window_length)]]
    /\ fed = <<>>
    /\ outs = <<>>
    /\ transformed = {}
    /\ cycled = {}
    /\ ticks = 0
    /\ pulses = 0
    /\ seen = <<>>
    /\ capability = window_length
    /\ failure = "none"
    /\ NoBuffers
    /\ NoHost
    /\ overflow_checks = FALSE

\* An engine that is only ever ticked.
NextTick == \E input \in [0..(Inputs - 1) -> Samples] : Tick(input)
SpecTick == Init /\ [][NextTick]_vars
SpecWrap == InitWrap /\ [][NextTick]_vars

\* An engine that is reset after ResetAt ticks, once or several times in a
\* row, and ticked on.
ResetAt == 10
ResetDue == ticks = ResetAt
NextReset ==
    \/ \E input \in [0..(Inputs - 1) -> Samples] : Tick(input)
    \/ ResetDue /\ Reset
SpecReset == Init /\ [][NextReset]_vars

(***************************************************************************)
(* Construction.  The patch holds a RealFft and a closure and calls         *)
(* Resynth::new once; the engine it gets is then driven with silence.       *)
(***************************************************************************)
\* Largest real_size() of a RealFft handed to Resynth::new.
MaxSize == 12
\* MicroFftRealFft reports 0; CmsisRealFft reports fftLenRFFT.
RealSizes == 0..MaxSize

\* usize::count_ones
RECURSIVE count_ones(_)
count_ones(n) == IF n = 0 THEN 0 ELSE (n % 2) + count_ones(n \div 2)

\* Mutant of is_power_of_two: every even length passes.
is_power_of_two_even(n) == n % 2 = 0

\* usize::is_power_of_two
is_power_of_two(n) == count_ones(n) = 1

\* assert!(window_length >= 4 && window_length.is_power_of_two())
Resynth_new_panics(real) == ~(real >= 4 /\ is_power_of_two(real))

\* Resynth::bins
Resynth_bins(length) == (length \div 2) + 1

\* No engine yet: the capability and the closure exist, new() has not run.
NoEngine ==
    /\ window_length = 0
    /\ window = <<>>
    /\ window_function = <<>>
    /\ samples = U32Zero
    /\ fed = <<>>
    /\ outs = <<>>
    /\ transformed = {}
    /\ cycled = {}
    /\ ticks = 0
    /\ pulses = 0
    /\ seen = <<>>
    /\ failure = "none"

InitNew ==
    /\ NoEngine
    /\ capability \in RealSizes
    /\ processing \in Closures
    /\ NoBuffers
    /\ NoHost
    /\ overflow_checks = FALSE

\* Resynth::new(fft, processing)
New ==
    /\ window_length = 0
    /\ failure = "none"
    /\ IF Resynth_new_panics(real_size(capability))
       THEN /\ failure' = "new"
            /\ UNCHANGED <<window_length, window, window_function>>
       ELSE /\ window_length' = real_size(capability)
            /\ window' = Resynth_new_window(real_size(capability))
            /\ window_function' = Resynth_new_window_function(real_size(capability))
            /\ UNCHANGED failure
    /\ UNCHANGED <<samples, processing, fed, outs, transformed, cycled, ticks, pulses,
                   seen, capability>>
    /\ UNCHANGED <<buffers, host>>

\* new() has returned an engine.
Constructed == window_length # 0

NextNew ==
    \/ New
    \/ Constructed /\ Tick([c \in 0..(Inputs - 1) |-> 0])
    \/ Constructed /\ Reset

SpecNew == InitNew /\ [][NextNew]_vars

(***************************************************************************)
(* The sample buffers as a state machine.  A panic ends the program: the   *)
(* state it leaves keeps only the call that panicked.                      *)
(***************************************************************************)
Panic(c) ==
    /\ source' = NoBuffer
    /\ dest' = NoBuffer
    /\ back' = NoBuffer
    /\ view' = NoBuffer
    /\ call' = c
    /\ outcome' = "panic"
    /\ UNCHANGED <<overflow_checks, conv, engine, host>>

Built(slot, buffer, c) ==
    /\ source' = (IF slot = "source" THEN buffer ELSE source)
    /\ dest' = (IF slot = "dest" THEN buffer ELSE dest)
    /\ back' = (IF slot = "back" THEN buffer ELSE back)
    /\ call' = c
    /\ UNCHANGED <<view, outcome, overflow_checks, conv, engine, host>>

\* Buffer::<Mono, Box<[F]>>::new_mono(blocksize)
Buffer_new_mono(item, blocksize) ==
    Built("source",
          Buffer("Mono", item, [p \in 1..blocksize |-> Default(item)], 1, blocksize),
          Call("new_mono", 1, blocksize, 0))

\* Buffer::<S, Box<[F]>>::new(channels, blocksize)
Buffer_new(slot, storage, item, channels, blocksize) ==
    LET n == usize_mul(channels, blocksize)
        c == Call("new", channels, blocksize, 0)
    IN  IF n.overflow /\ overflow_checks
        THEN Panic(c)
        ELSE /\ n.wrapped[1] = 0
             /\ n.wrapped[2] <= MaxLen
             /\ Built(slot,
                      Buffer(storage, item,
                             [p \in 1..n.wrapped[2] |-> Default(item)],
                             channels, blocksize),
                      c)

\* The body shared by new_ref, new_mut and new_from:
\*   assert_eq!(channels * blocksize, samples.len()); Self { ... }
Buffer_wrap(op, storage, item, channels, blocksize, samples_) ==
    LET n == usize_mul(channels, blocksize)
        c == Call(op, channels, blocksize, Len(samples_))
    IN  IF n.overflow /\ overflow_checks
        THEN Panic(c)
        ELSE IF n.wrapped # usize(Len(samples_))
        THEN Panic(c)
        ELSE Built("source",
                   IF op = "new_ref"
                   THEN Shared(Buffer(storage, item, samples_, channels, blocksize))
                   ELSE Buffer(storage, item, samples_, channels, blocksize),
                   c)

\* Buffer::<S, &[F]>::new_ref(channels, blocksize, samples)
Buffer_new_ref(storage, item, channels, blocksize, samples_) ==
    Buffer_wrap("new_ref", storage, item, channels, blocksize, samples_)

\* Buffer::<S, &mut [F]>::new_mut(channels, blocksize, samples)
Buffer_new_mut(storage, item, channels, blocksize, samples_) ==
    Buffer_wrap("new_mut", storage, item, channels, blocksize, samples_)

\* Buffer::<S, C>::new_from(channels, blocksize, samples)
Buffer_new_from(storage, item, channels, blocksize, samples_) ==
    Buffer_wrap("new_from", storage, item, channels, blocksize, samples_)

\* Buffer::<Mono, &[F]>::mono_ref(samples)
Buffer_mono_ref(item, samples_) ==
    Built("source", Shared(Buffer("Mono", item, samples_, 1, Len(samples_))),
          Call("mono_ref", 1, Len(samples_), Len(samples_)))

\* Buffer::<Mono, &mut [F]>::mono_mut(samples)
Buffer_mono_mut(item, samples_) ==
    Built("source", Buffer("Mono", item, samples_, 1, Len(samples_)),
          Call("mono_mut", 1, Len(samples_), Len(samples_)))

\* dest.convert_from(&source), Channels to Interleaved
ConvertFrom ==
    LET c == Call("convert_from", 0, 0, 0)
    IN  /\ outcome = "ok"
        /\ source.storage = "Channels"
        /\ dest.storage = "Interleaved"
        /\ IF convert_from_panics(dest, source)
           THEN Panic(c)
           ELSE /\ dest' = convert_from(dest, source)
                /\ call' = c
                /\ UNCHANGED <<source, back, view, outcome, overflow_checks, conv, engine, host>>

\* source op= rhs; dest op= rhs, for one operator of impl_op!
OpAssign(op, rhs) ==
    LET c == Call(op, 0, 0, 0)
    IN  /\ outcome = "ok"
        /\ source.mutable /\ dest.mutable
        /\ IF \/ op_assign_panics(source, op, rhs, overflow_checks)
              \/ op_assign_panics(dest, op, rhs, overflow_checks)
           THEN Panic(c)
           ELSE /\ source' = op_assign(source, op, rhs)
                /\ dest' = op_assign(dest, op, rhs)
                /\ call' = c
                /\ UNCHANGED <<back, view, outcome, overflow_checks, conv, engine, host>>

\* self.channels().skip(k).take(1).next(), for left (k = 0), right (k = 1)
\* and, over channels_mut(), left_mut and right_mut.  channels() is
\* samples.chunks(blocksize).map(Buffer::mono_ref): chunks(0) panics.
Accessors == {"left", "right", "left_mut", "right_mut"}
Skips(op) == IF op \in {"left", "left_mut"} THEN 0 ELSE 1
Channel(op) ==
    LET c  == Call(op, source.channels, source.blocksize, Len(source.samples))
        k  == Skips(op)
        chs == chunks(source.samples, source.blocksize)
        ch == Buffer("Mono", source.item, chs[k + 1], 1, Len(chs[k + 1]))
    IN  /\ outcome = "ok"
        /\ source.storage = "Channels"
        /\ op \in {"left_mut", "right_mut"} => source.mutable
        /\ IF source.blocksize = 0
           THEN Panic(c)
           ELSE /\ view' = (IF k < Len(chs)
                            THEN (IF op \in {"left", "right"} THEN Shared(ch) ELSE ch)
                            ELSE NoBuffer)
                /\ call' = c
                /\ UNCHANGED <<source, dest, back, outcome, overflow_checks, conv, engine, host>>

\* Buffer<Channels, C>::left()
Left == Channel("left")
\* Buffer<Channels, C>::right()
Right == Channel("right")
\* Buffer<Channels, C>::left_mut()
LeftMut == Channel("left_mut")
\* Buffer<Channels, C>::right_mut()
RightMut == Channel("right_mut")

\* back.convert_from(&dest), Interleaved to Channels
ConvertBack ==
    LET c == Call("convert_back", 0, 0, 0)
    IN  /\ outcome = "ok"
        /\ dest.storage = "Interleaved"
        /\ back.storage = "Channels"
        /\ IF convert_from_interleaved_panics(back, dest)
           THEN Panic(c)
           ELSE /\ back' = convert_from_interleaved(back, dest)
                /\ call' = c
                /\ UNCHANGED <<source, dest, view, outcome, overflow_checks, conv, engine, host>>

InitBuffer ==
    /\ Resynth_new
    /\ window_length = 4
    /\ processing = "copy"
    /\ NoBuffers
    /\ NoHost
    /\ overflow_checks \in BOOLEAN

\* One run: a constructor call builds `source`; when that is a
\* Buffer<Channels>, Buffer::new allocates an Interleaved `dest` and
\* dest.convert_from(&source) runs; then Buffer::new allocates a Channels
\* `back` of as many channels and back.convert_from(&dest) runs, or one
\* operator of impl_op! is applied to both `source` and `dest`.  Instead
\* of all that, one channel accessor is called on `source`.
NoSource == outcome = "ok" /\ source.storage = "None"
NoDest ==
    /\ outcome = "ok"
    /\ source.storage = "Channels"
    /\ dest.storage = "None"
    /\ call.op \notin Accessors
DestFresh == call.op = "new" /\ dest.storage # "None" /\ back.storage = "None"
BackFresh == call.op = "new" /\ back.storage # "None"
\* dest holds the layout conversion of source: same shape, same sample type.
Converted ==
    /\ outcome = "ok"
    /\ call.op = "convert_from"
    /\ source.channels = dest.channels
    /\ source.blocksize = dest.blocksize
    /\ source.item = dest.item
NoBack == outcome = "ok" /\ call.op = "convert_from" /\ back.storage = "None"

NextBuffer ==
    \/ NoSource /\ \E item \in Items, blocksize \in 0..MaxLen :
            Buffer_new_mono(item, blocksize)
    \/ NoSource /\ \E storage \in StoragePatterns, item \in Items,
                      channels \in Dims, blocksize \in Dims :
            Buffer_new("source", storage, item, channels, blocksize)
    \/ NoDest /\ \E item \in Items, channels \in Dims, blocksize \in Dims :
            Buffer_new("dest", "Interleaved", item, channels, blocksize)
    \/ NoSource /\ \E storage \in StoragePatterns, item \in Items,
                      channels \in Dims, blocksize \in Dims :
            \E samples_ \in Slices(item) :
                Buffer_new_ref(storage, item, channels, blocksize, samples_)
    \/ NoSource /\ \E storage \in StoragePatterns, item \in Items,
                      channels \in Dims, blocksize \in Dims :
            \E samples_ \in Slices(item) :
                Buffer_new_mut(storage, item, channels, blocksize, samples_)
    \/ NoSource /\ \E storage \in StoragePatterns, item \in Items,
                      channels \in Dims, blocksize \in Dims :
            \E samples_ \in Slices(item) :
                Buffer_new_from(storage, item, channels, blocksize, samples_)
    \/ NoSource /\ \E item \in Items : \E samples_ \in Slices(item) :
            Buffer_mono_ref(item, samples_)
    \/ NoSource /\ \E item \in Items : \E samples_ \in Slices(item) :
            Buffer_mono_mut(item, samples_)
    \/ DestFresh /\ ConvertFrom
    \/ NoBack /\ \E item \in Items, blocksize \in Dims :
            Buffer_new("back", "Channels", item, source.channels, blocksize)
    \/ BackFresh /\ ConvertBack
    \/ NoDest /\ Left
    \/ NoDest /\ Right
    \/ NoDest /\ LeftMut
    \/ NoDest /\ RightMut
    \/ Converted /\ \E op \in Ops : \E rhs \in Scalars(source.item) : OpAssign(op, rhs)

SpecBuffer == InitBuffer /\ [][NextBuffer]_vars

(***************************************************************************)
(* Single samples: the PCM <-> float conversions of sample_buffer.rs and   *)
(* the host sample formats of program_vector/audio.rs.                     *)
(***************************************************************************)
\* The i32 values converted are 2^k + e * 2^j + d and their negatives, for
\* every bit k of an i32, every lower bit j, e in {0, 1} and |d| up to
\* MaxOffset, and the values within MaxOffset of i32::MIN and i32::MAX.
MaxOffset == 2
Offsets == (0 - MaxOffset)..MaxOffset
Magnitudes ==
    UNION {{Pow2(k) + e * Pow2(j) + d : j \in 0..(k - 1), e \in {0, 1}, d \in Offsets} :
           k \in 1..30}
I32Words ==
    Magnitudes \cup {0 - m : m \in Magnitudes}
    \cup {I32Max - d : d \in 0..MaxOffset} \cup {I32Min + d : d \in 0..MaxOffset}

\* ConvertFrom<i32> for Samplew16: self.0 = value >> 16
Samplew16_from_i32(value) == value \div Half
\* ConvertFrom<Samplew16> for i32: *self = value.0 << 16
i32_from_Samplew16(word) == FromU32(<<word % Half, 0>>)

Converts(c) ==
    /\ conv' = c
    /\ UNCHANGED <<source, dest, back, view, call, outcome, overflow_checks, engine, host>>

\* let f: f32 = v.convert_into(); let w: i32 = f.convert_into();
RoundTrip(v) ==
    LET f == i32_convert_into_f32(v)
    IN  Converts(Conv("round_trip", v, f, f32_convert_into_i32(f)))

\* output.convert_from(&self.output_buffer), one sample, Format24B16
HostFromInternal(v) ==
    Converts(Conv("samplew16_from_i32", v, <<0, 0>>, Samplew16_from_i32(v)))

\* self.input_buffer.convert_from(input), one sample, Format24B16
InternalFromHost(w) ==
    Converts(Conv("i32_from_samplew16", w, <<0, 0>>, i32_from_Samplew16(w)))

InitSample ==
    /\ Resynth_new
    /\ window_length = 4
    /\ processing = "copy"
    /\ NoBuffers
    /\ NoHost
    /\ overflow_checks = FALSE

\* One run converts one sample.
NoSample == conv.op = "none"

NextSample ==
    \/ NoSample /\ \E v \in I32Words : RoundTrip(v)
    \/ NoSample /\ \E v \in I32Words : HostFromInternal(v)
    \/ NoSample /\ \E w \in I32Words : InternalFromHost(w)

SpecSample == InitSample /\ [][NextSample]_vars

(***************************************************************************)
(* The FFT provider as a state machine: one fft_real call per run.         *)
(***************************************************************************)
InitFft ==
    /\ Resynth_new
    /\ window_length = 4
    /\ processing = "copy"
    /\ NoBuffers
    /\ overflow_checks = FALSE
    /\ pv \in [serviceCall : BOOLEAN]
    /\ rfft = NoRfft
    /\ NoCallers

\* pv.fft_real(size), the host behaving as h.
FftReal(size, h) ==
    /\ rfft' = [call |-> "fft_real", size |-> size, host |-> h,
                result |-> fft_real(pv, size, h)]
    /\ UNCHANGED <<pv, TAKEN, PROGRAM_VECTOR, callers, interp, stored, audio, engine, buffers>>

NoCall == rfft.call = "none"

NextFft ==
    NoCall /\ \E size \in FftSizes : \E h \in Hosts : FftReal(size, h)

SpecFft == InitFft /\ [][NextFft]_vars

(***************************************************************************)
(* Acquisition of the program vector (src/program_vector/mod.rs).  Several *)
(* callers run ProgramVector::instance() interleaved, one statement at a   *)
(* time.  callers[p] holds the position of caller p, the value its swap    *)
(* returned and what its error() wrote.                                    *)
(***************************************************************************)
\* Calls of ProgramVector::instance() in one program.
MaxCallers == 3
Callers == 1..MaxCallers

\* Mutant of swap: the old value is not read.
swap_blind(flag) == FALSE

\* TAKEN.swap(true, Ordering::Relaxed): the value it returns.
swap(flag) == flag

Caller(at_, taken, code, message) ==
    [at |-> at_, taken |-> taken, code |-> code, message |-> message]

InitVector ==
    /\ Resynth_new
    /\ window_length = 4
    /\ processing = "copy"
    /\ NoBuffers
    /\ overflow_checks = FALSE
    /\ pv = [serviceCall |-> FALSE]
    /\ rfft = NoRfft
    /\ TAKEN = FALSE
    /\ PROGRAM_VECTOR \in [checksum : {"below V11", "V11 or above"},
                           programStatus : BOOLEAN,
                           error : {"none"}, message : {"none"}]
    /\ callers = [p \in Callers |-> Caller("instance", FALSE, "none", "none")]
    /\ interp = [op |-> "none"]
    /\ stored = [kind |-> "none"]
    /\ audio = [at |-> "none"]

Rest == <<pv, rfft, interp, stored, audio, engine, buffers>>

\* let taken = TAKEN.swap(true, Ordering::Relaxed);
Swap(p) ==
    /\ callers[p].at = "instance"
    /\ TAKEN' = TRUE
    /\ callers' = [callers EXCEPT ![p].at = "if taken", ![p].taken = swap(TAKEN)]
    /\ UNCHANGED <<PROGRAM_VECTOR, Rest>>

\* if taken { instance.error(..already taken) }
\* if instance.pv.checksum < PROGRAM_VECTOR_CHECKSUM_V11 { instance.error(..) }
\* instance
Tests(p) ==
    /\ callers[p].at = "if taken"
    /\ callers' = [callers EXCEPT ![p].at =
          IF callers[p].taken THEN "error: already taken"
          ELSE IF PROGRAM_VECTOR.checksum = "below V11" THEN "error: checksum"
          ELSE "returned"]
    /\ UNCHANGED <<TAKEN, PROGRAM_VECTOR, Rest>>

\* The message each call of error passes.
Message(at_) ==
    IF at_ = "error: already taken" THEN "program vector already taken"
    ELSE "program vector checksum error"

\* error: self.pv.error = code;
ErrorCode(p) ==
    /\ callers[p].at \in {"error: already taken", "error: checksum"}
    /\ callers[p].code = "none"
    /\ PROGRAM_VECTOR' = [PROGRAM_VECTOR EXCEPT !.error = "CONFIGURATION_ERROR_STATUS"]
    /\ callers' = [callers EXCEPT ![p].code = "CONFIGURATION_ERROR_STATUS"]
    /\ UNCHANGED <<TAKEN, Rest>>

\* error: self.pv.message = message.as_ptr() as *mut i8;
ErrorMessage(p) ==
    /\ callers[p].at \in {"error: already taken", "error: checksum"}
    /\ callers[p].code # "none"
    /\ callers[p].message = "none"
    /\ PROGRAM_VECTOR' = [PROGRAM_VECTOR EXCEPT !.message = Message(callers[p].at)]
    /\ callers' = [callers EXCEPT ![p].message = Message(callers[p].at)]
    /\ UNCHANGED <<TAKEN, Rest>>

\* error: program_status(AUDIO_ERROR_STATUS), which does not return (were it
\* to return, unreachable!() panics), or the loop: the call diverges.
ErrorDiverges(p) ==
    /\ callers[p].at \in {"error: already taken", "error: checksum"}
    /\ callers[p].message # "none"
    /\ callers' = [callers EXCEPT ![p].at =
          IF PROGRAM_VECTOR.programStatus THEN "in program_status" ELSE "in loop"]
    /\ UNCHANGED <<TAKEN, PROGRAM_VECTOR, Rest>>

NextVector ==
    \/ \E p \in Callers : Swap(p)
    \/ \E p \in Callers : Tests(p)
    \/ \E p \in Callers : ErrorCode(p)
    \/ \E p \in Callers : ErrorMessage(p)
    \/ \E p \in Callers : ErrorDiverges(p)

SpecVector == InitVector /\ [][NextVector]_vars

(***************************************************************************)
(* Interpolation (src/interpolation.rs).  alpha is an f32 <<m, e>>; the    *)
(* i64 product of Lerp for i32 is computed on 16-bit halves.               *)
(***************************************************************************)
I16Max == 32767
I16Min == (0 - I16Max) - 1

\* Mutant of shr: the quotient is truncated toward zero.
shr_toward_zero(x, k) == Sign(x) * (Abs(x) \div Pow2(k))

\* x >> k on a signed integer: the arithmetic shift rounds down.
shr(x, k) == x \div Pow2(k)

\* (alpha * 0x10000 as f32) as i64 and (alpha * 0x100 as f32) as i32
fraction(alpha, k) == f32_as_i32(f32_mul_pow2(alpha, k))

\* Lerp for i16
lerp_i16(a, b, alpha) ==
    LET partial == shr((b - a) * fraction(alpha, 8), 8)
        sum     == a + partial
    IN  ((sum - I16Min) % (2 * (I16Max + 1))) + I16Min

\* Lerp for i32, for a fraction in 0..0x10000.  With b - a = H * 2^16 + Lo
\* (0 <= Lo < 2^16), ((b - a) * f) >> 16 is H * f plus the high half q of
\* Lo * f; the sum with a is cut to 32 bits by `as i32`.
lerp_i32(a, b, alpha) ==
    LET f    == fraction(alpha, 16)
        dl   == (b % Half) - (a % Half)
        H    == (b \div Half) - (a \div Half) - (IF dl < 0 THEN 1 ELSE 0)
        Lo   == dl % Half
        Hq   == H \div Half
        Hr   == H % Half
        ua   == ToU32(a)
    IN  IF f = Half
        THEN i32_wrapping_add(a, FromU32(<<H % Half, Lo>>))
        ELSE LET hf  == Mul16(Hr, f)
                 q   == Mul16(Lo, f)[1]
                 low == ua[2] + hf[2] + q
                 hi  == ua[1] + hf[1] + Hq * f + (low \div Half)
             IN  FromU32(<<hi % Half, low % Half>>)

\* impl Lerp for f32: a + (b - a) * alpha
lerp_f32(a, b, alpha) == f32_add(a, f32_mul(f32_sub(b, a), alpha))

Lerp(item, a, b, alpha) ==
    IF item = "i32" THEN lerp_i32(a, b, alpha)
    ELSE IF item = "f32" THEN lerp_f32(a, b, alpha)
    ELSE lerp_i16(a, b, alpha)

\* The values interpolated and the weights, all in [0, 1].
LerpItems == {"i32", "i16"}
LerpValues(item) ==
    IF item = "i32" THEN {I32Min, I32Min + 1, 0 - 65537, 0 - 1, 0, 1, 100, 65536, I32Max - 100, I32Max}
    ELSE {I16Min, I16Min + 1, 0 - 257, 0 - 1, 0, 1, 100, 256, I16Max - 100, I16Max}
Alphas == {<<0, 0>>, <<1, 0>>, <<1, 0 - 1>>, <<1, 0 - 2>>, <<3, 0 - 2>>, <<1, 0 - 17>>,
           <<16777215, 0 - 24>>, <<11184811, 0 - 25>>}

InitLerp ==
    /\ Resynth_new
    /\ window_length = 4
    /\ processing = "copy"
    /\ NoBuffers
    /\ overflow_checks = FALSE
    /\ NoHost

\* Lerp::lerp(a, b, alpha)
LerpCall(item, a, b, alpha) ==
    /\ interp' = [op |-> "lerp", item |-> item, a |-> a, b |-> b, alpha |-> alpha,
                  result |-> Lerp(item, a, b, alpha)]
    /\ UNCHANGED <<pv, rfft, TAKEN, PROGRAM_VECTOR, callers, stored, audio, engine, buffers>>

NoInterp == interp.op = "none"

NextLerp ==
    NoInterp /\ \E item \in LerpItems : \E a, b \in LerpValues(item) : \E alpha \in Alphas :
        LerpCall(item, a, b, alpha)

SpecLerp == InitLerp /\ [][NextLerp]_vars

(***************************************************************************)
(* Fractional indexing: partial_index of interpolation.rs and index_lerp   *)
(* of Buffer<Interleaved, C>.  The indices are small dyadic floats, so     *)
(* floor, the subtraction and the remainder are exact.                     *)
(***************************************************************************)
\* index.floor()
f32_floor(x) == IF x[2] >= 0 THEN x ELSE F32Norm(x[1] \div Pow2(0 - x[2]), 0)
\* Euclid::rem_euclid(&x, &y): r = x % y; if r < 0.0 { r + y.abs() } else { r }
f32_rem_euclid(x, y) ==
    LET r == f32_rem(x, y)
    IN  IF r[1] < 0 THEN f32_add(r, <<Abs(y[1]), y[2]>>) ELSE r
\* `x as usize`: NaN and the negative values become 0.
f32_as_usize(x) == IF x = F32NaN \/ x[1] < 0 THEN 0 ELSE f32_as_i32(x)

partial_index(index, wrap_len) ==
    LET f == f32_floor(index)
    IN  [index0 |-> f32_as_usize(f32_rem_euclid(f, wrap_len)),
         index1 |-> f32_as_usize(f32_rem_euclid(f32_add(f, <<1, 0>>), wrap_len)),
         alpha  |-> f32_sub(index, f)]

\* &s[from..to]: panics when from > to or to > s.len()
slice_panics(s, from, to) == from > to \/ to > Len(s)
slice(s, from, to) == SubSeq(s, from + 1, to)

\* Buffer<Interleaved, C>::index_lerp(index), with the iterator it returns
\* run to its end: frame0 is samples[index0 * blocksize..index1 * blocksize],
\* frame1 is samples[index1 * blocksize..index1 * blocksize], and next()
\* yields lerp(frame0[i], frame1[i], alpha) while i < blocksize.  `panics`
\* is "slice" when a range is rejected at the call, "next" when an index
\* into a frame is out of bounds, and `values` is what was yielded before.
Interleaved_index_lerp(self, index) ==
    LET p      == partial_index(index, i32_as_f32(self.blocksize))
        from0  == p.index0 * self.blocksize
        to0    == p.index1 * self.blocksize
    IN  IF slice_panics(self.samples, from0, to0)
        THEN [panics |-> "slice", values |-> <<>>]
        ELSE LET frame0 == slice(self.samples, from0, to0)
                 frame1 == slice(self.samples, to0, to0)
                 inside == {n \in 0..self.blocksize :
                               \A i \in 1..n : i <= Len(frame0) /\ i <= Len(frame1)}
                 n      == CHOOSE m \in inside : \A o \in inside : o <= m
             IN  [panics |-> IF n < self.blocksize THEN "next" ELSE "none",
                  values |-> [i \in 1..n |->
                                 Lerp(self.item, frame0[i], frame1[i], p.alpha)]]

\* The indices a buffer is read at: 0, 1/2, 1, 3/2, 5/4 and -1/2.
Indices == {<<0, 0>>, <<1, 0 - 1>>, <<1, 0>>, <<3, 0 - 1>>, <<5, 0 - 2>>, <<0 - 1, 0 - 1>>}

\* source.index_lerp(index).collect()
IndexLerp(index) ==
    LET r == Interleaved_index_lerp(source, index)
    IN  /\ outcome = "ok"
        /\ source.storage = "Interleaved"
        /\ interp' = [op |-> "index_lerp", self |-> source, index |-> index, result |-> r]
        /\ outcome' = (IF r.panics = "none" THEN "ok" ELSE "panic")
        /\ call' = Call("index_lerp", source.channels, source.blocksize, Len(source.samples))
        /\ UNCHANGED <<source, dest, back, view, conv, overflow_checks, engine,
                       pv, rfft, TAKEN, PROGRAM_VECTOR, callers, stored, audio>>

NextIndex ==
    \/ NoSource /\ \E item \in Items, channels \in 0..MaxDim, blocksize \in 0..MaxDim :
            \E samples_ \in Slices(item) :
                Buffer_new_from("Interleaved", item, channels, blocksize, samples_)
    \/ NoInterp /\ \E index \in Indices : IndexLerp(index)

SpecIndex == InitLerp /\ [][NextIndex]_vars

(***************************************************************************)
(* The storage types of src/sample_buffer/: Frame (frame.rs) and Channels  *)
(* (storage.rs).  `stored` holds what was built, the call that built it    *)
(* and the latest question asked of it.                                    *)
(***************************************************************************)
Stored(kind, op, item, samples_, nchannels, channels) ==
    [kind |-> kind, op |-> op, item |-> item, samples |-> samples_,
     nchannels |-> nchannels, channels |-> channels, asked |-> "none", answer |-> FALSE]
OtherThanStored == <<pv, rfft, TAKEN, PROGRAM_VECTOR, callers, interp, audio, engine, buffers>>

\* Frame::len(): self.0.as_ref().len()
Frame_len(frame) == Len(frame.samples)
\* Frame::is_empty(): self.0.as_ref().len() > 0
Frame_is_empty(frame) == Len(frame.samples) > 0

\* Frame::<Box<[T]>>::new(n_channels)
Frame_new(item, n_channels) ==
    /\ stored' = Stored("Frame", "new", item, [c \in 1..n_channels |-> Default(item)],
                        n_channels, <<>>)
    /\ UNCHANGED OtherThanStored
\* Frame::from(samples)
Frame_from(item, samples_) ==
    /\ stored' = Stored("Frame", "from", item, samples_, Len(samples_), <<>>)
    /\ UNCHANGED OtherThanStored
\* frame.len()
Len_ ==
    /\ stored.kind = "Frame"
    /\ stored' = [stored EXCEPT !.asked = "len", !.answer = Frame_len(stored)]
    /\ UNCHANGED OtherThanStored
\* frame.is_empty()
IsEmpty ==
    /\ stored.kind = "Frame"
    /\ stored' = [stored EXCEPT !.asked = "is_empty", !.answer = Frame_is_empty(stored)]
    /\ UNCHANGED OtherThanStored

\* Channels::new_ref(samples, nchannels) and Channels::new_mut(samples,
\* nchannels): blocksize = samples.len() / nchannels (a division by zero
\* panics), then samples.chunks(blocksize) (chunks(0) panics), each chunk
\* wrapped as a mono buffer.
Channels_wrap(op, item, samples_, nchannels) ==
    IF nchannels = 0 \/ Len(samples_) \div nchannels = 0
    THEN Stored("panic", op, item, samples_, nchannels, <<>>)
    ELSE LET blocksize == Len(samples_) \div nchannels
             chs       == chunks(samples_, blocksize)
             mono(ch)  == Buffer("Mono", item, ch, 1, Len(ch))
         IN  Stored("Channels", op, item, samples_, nchannels,
                    [k \in 1..Len(chs) |->
                        IF op = "new_ref" THEN Shared(mono(chs[k])) ELSE mono(chs[k])])
Channels_new_ref(item, samples_, nchannels) ==
    /\ stored' = Channels_wrap("new_ref", item, samples_, nchannels)
    /\ UNCHANGED OtherThanStored
Channels_new_mut(item, samples_, nchannels) ==
    /\ stored' = Channels_wrap("new_mut", item, samples_, nchannels)
    /\ UNCHANGED OtherThanStored

NoStored == stored.kind = "none"
NotAsked == stored.kind = "Frame" /\ stored.asked = "none"
NextStorage ==
    \/ NoStored /\ \E item \in Items, n_channels \in 0..MaxDim : Frame_new(item, n_channels)
    \/ NoStored /\ \E item \in Items : \E samples_ \in Slices(item) : Frame_from(item, samples_)
    \/ NotAsked /\ Len_
    \/ NotAsked /\ IsEmpty
    \/ NoStored /\ \E item \in Items, nchannels \in 0..MaxDim :
            \E samples_ \in Slices(item) : Channels_new_ref(item, samples_, nchannels)
    \/ NoStored /\ \E item \in Items, nchannels \in 0..MaxDim :
            \E samples_ \in Slices(item) : Channels_new_mut(item, samples_, nchannels)

SpecStorage == InitLerp /\ [][NextStorage]_vars

(***************************************************************************)
(* AudioBuffers::run (program_vector/audio.rs), one step of the loop body  *)
(* per action.  The host fills its input block and takes its output block  *)
(* inside program_ready().  `audio` holds the AudioBuffers, the two host   *)
(* blocks, the statement run() is at, and as history the host blocks given *)
(* (ins), the buffers the closure was called with (given) and left (made)  *)
(* and the host blocks written (written).                                  *)
(***************************************************************************)
MaxBlocks == 2
Formats == {"Format24B16", "Format24B32"}
\* The closures handed to run(): |input, output| output.convert_from(input),
\* |_, _| {} and one that counts its calls into every output sample.
Patches == {"copy", "none", "count"}
\* The words the host puts into its input block.
HostWords == {0, 1, 0 - 32768}

\* ConvertFrom<i32> for Samplei32: self.0 = value >> 8
Samplei32_from_i32(value) == value \div 256
\* ConvertFrom<Samplei32> for i32: *self = value.0 << 8
i32_from_Samplei32(word) ==
    LET u == ToU32(word)
    IN  FromU32(<<(u[1] * 256 + (u[2] \div 256)) % Half, (u[2] * 256) % Half>>)

\* self.input_buffer.convert_from(input): sample by sample, F to i32
convert_from_host(format, block) ==
    [p \in DOMAIN block |->
        IF format = "Format24B16" THEN i32_from_Samplew16(block[p])
        ELSE i32_from_Samplei32(block[p])]
\* output.convert_from(&self.output_buffer): sample by sample, i32 to F
convert_to_host(format, buffer) ==
    [p \in DOMAIN buffer |->
        IF format = "Format24B16" THEN Samplew16_from_i32(buffer[p])
        ELSE Samplei32_from_i32(buffer[p])]
\* f(&self.input_buffer, &mut self.output_buffer): the output buffer after
\* call number n of the closure
Patch(kind, input, output, n) ==
    CASE kind = "copy"  -> input
      [] kind = "none"  -> output
      [] kind = "count" -> [p \in DOMAIN output |-> n * 256]

\* AudioBuffers::new(input, output, settings, program_ready); the host
\* blocks hold blocksize * channels words.
AudioBuffers_new(channels, blocksize, format, program_ready, patch) ==
    [at            |-> "new",
     channels      |-> channels,
     blocksize     |-> blocksize,
     format        |-> format,
     program_ready |-> program_ready,
     patch         |-> patch,
     input_buffer  |-> [p \in 1..(channels * blocksize) |-> 0],
     output_buffer |-> [p \in 1..(channels * blocksize) |-> 0],
     input         |-> [p \in 1..(channels * blocksize) |-> 0],
     output        |-> [p \in 1..(channels * blocksize) |-> 0],
     message       |-> "none",
     ins           |-> <<>>,
     given         |-> <<>>,
     made          |-> <<>>,
     written       |-> <<>>]

OtherThanAudio == <<pv, rfft, TAKEN, PROGRAM_VECTOR, callers, interp, stored, engine, buffers>>

InitAudio ==
    /\ Resynth_new
    /\ window_length = 4
    /\ processing = "copy"
    /\ NoBuffers
    /\ overflow_checks = FALSE
    /\ pv = [serviceCall |-> FALSE]
    /\ rfft = NoRfft
    /\ TAKEN = FALSE
    /\ PROGRAM_VECTOR = [checksum |-> "V11 or above", programStatus |-> TRUE,
                         error |-> "none", message |-> "none"]
    /\ callers = <<>>
    /\ interp = [op |-> "none"]
    /\ stored = [kind |-> "none"]
    /\ \E channels \in 1..2, format \in Formats, program_ready \in BOOLEAN, patch \in Patches :
           audio = AudioBuffers_new(channels, 1, format, program_ready, patch)

\* run(f), up to the loop: let Some(program_ready) = self.program_ready
\* else { panic!("no audio available") }
Run ==
    /\ audio.at = "new"
    /\ audio' = IF audio.program_ready
                THEN [audio EXCEPT !.at = "program_ready"]
                ELSE [audio EXCEPT !.at = "panic", !.message = "no audio available"]
    /\ UNCHANGED OtherThanAudio
\* unsafe { program_ready() }: the host has filled its input block when the
\* call returns.
ProgramReady(block) ==
    /\ audio.at = "program_ready"
    /\ Len(audio.ins) < MaxBlocks
    /\ audio' = [audio EXCEPT !.at = "convert_in", !.input = block,
                               !.ins = Append(audio.ins, block)]
    /\ UNCHANGED OtherThanAudio
\* self.input_buffer.convert_from(input)
ConvertIn ==
    /\ audio.at = "convert_in"
    /\ audio' = [audio EXCEPT !.at = "closure",
                               !.input_buffer = convert_from_host(audio.format, audio.input)]
    /\ UNCHANGED OtherThanAudio
\* Mutant of Closure: the closure is not called.
Closure_skipped ==
    /\ audio.at = "closure"
    /\ audio' = [audio EXCEPT !.at = "convert_out"]
    /\ UNCHANGED OtherThanAudio
\* f(&self.input_buffer, &mut self.output_buffer)
Closure ==
    LET out == Patch(audio.patch, audio.input_buffer, audio.output_buffer,
                     Len(audio.given) + 1)
    IN  /\ audio.at = "closure"
        /\ audio' = [audio EXCEPT !.at = "convert_out", !.output_buffer = out,
                                   !.given = Append(audio.given, audio.input_buffer),
                                   !.made = Append(audio.made, out)]
        /\ UNCHANGED OtherThanAudio
\* output.convert_from(&self.output_buffer), and back to the top of the loop
ConvertOut ==
    LET block == convert_to_host(audio.format, audio.output_buffer)
    IN  /\ audio.at = "convert_out"
        /\ audio' = [audio EXCEPT !.at = "program_ready", !.output = block,
                                   !.written = Append(audio.written, block)]
        /\ UNCHANGED OtherThanAudio

NextAudio ==
    \/ Run
    \/ \E block \in [1..(audio.channels * audio.blocksize) -> HostWords] : ProgramReady(block)
    \/ ConvertIn
    \/ Closure
    \/ ConvertOut

SpecAudio == InitAudio /\ [][NextAudio]_vars




(***************************************************************************)
(* Vocabulary of the claims.  Tick number t (0-based, counted from new()   *)
(* or the latest reset()) was fed fed[t + 1] and returned outs[t + 1].     *)
(***************************************************************************)
L == window_length
Ticked == Len(outs)
InputAt(t) == fed[t + 1][0]
OutputAt(t) == outs[t + 1][0]
\* The frame value that stands for the real sample x.
Sample(x) == RInt(FrameDen(L) * x)
WasReset == ticks > Len(fed)
Ready == {k \in 0..(WINDOWS - 1) : is_fft_time(window[k])}

\* C1: with the pass-through closure, the frame returned by tick t equals
\* the frame fed at tick t - L, for every t >= 2L.
C1_PassThroughLatencyL ==
    processing = "copy" =>
        \A t \in 0..(Ticked - 1) : t >= 2 * L => OutputAt(t) = Sample(InputAt(t - L))

\* A non-zero sample fed at tick t - L comes back at a tick t >= 2L (L = 8).
C1_Witness ==
    /\ processing = "copy"
    /\ L = 8
    /\ \E t \in 0..(Ticked - 1) : t >= 2 * L /\ InputAt(t - L) = 1 /\ OutputAt(t) = Sample(1)

\* C2: after new() or reset(), whatever the closure and the input, each of
\* the ticks 0 .. L-1 returns an all-zero frame.
C2_SilentInitialFill ==
    \A t \in 0..(Ticked - 1) : t < L => \A c \in DOMAIN outs[t + 1] : outs[t + 1][c] = RZero

\* The L ticks after a reset that follows a transform of the constant-output
\* closure, whose output ring was not silent.
C2_Witness ==
    /\ processing = "dc"
    /\ L = 8
    /\ Ticked = L
    /\ ticks - Ticked > L

\* C3: once at least L samples are processed, a tick that ends on a hop
\* boundary (a multiple of L/4) transforms exactly one window, the one
\* window satisfying is_fft_time(); any other tick transforms none.
C3_TransformCadence ==
    (Ticked >= L) =>
        IF Ticked % (L \div 4) = 0
        THEN Cardinality(transformed) = 1 /\ transformed = Ready
        ELSE transformed = {}

\* A hop boundary in steady state at which window 3 is the one transformed.
C3_Witness ==
    /\ L = 8
    /\ Ticked >= L
    /\ transformed = {3}

\* C4: in every state at most one window satisfies is_fft_time().
C4_AtMostOneReady == Cardinality(Ready) <= 1

\* A window is ready after a reset and a further window length of ticks.
C4_Witness ==
    /\ WasReset
    /\ Cardinality(Ready) = 1

\* C5 as stated: once L + L/4 samples are processed every window has
\* performed its first transform.
C5_AllCycledAtFiveQuarters ==
    (Ticked >= L + (L \div 4)) => cycled = 0..(WINDOWS - 1)

\* C5 amended: every window has performed its first transform once
\* L + 3L/4 samples are processed, and not before; from that tick on the
\* pass-through closure returns the frame fed L ticks earlier.
C5_AllCycledAtSevenQuarters ==
    /\ (Ticked >= L + 3 * (L \div 4)) <=> (cycled = 0..(WINDOWS - 1))
    /\ (processing = "copy" /\ Ticked > L + 3 * (L \div 4))
          => OutputAt(Ticked - 1) = Sample(InputAt(Ticked - 1 - L))

\* The fourth window (window 1) has just performed its first transform.
C5_Witness ==
    /\ L = 8
    /\ Ticked = L + 3 * (L \div 4)
    /\ transformed = {1}
    /\ cycled = 0..(WINDOWS - 1)

\* C6 as stated: with the pass-through closure the output of tick t is the
\* input of tick t - (L + L/4), in steady state (t >= 2L).
C6_DelayFiveQuarters ==
    processing = "copy" =>
        \A t \in 0..(Ticked - 1) :
            t >= 2 * L => OutputAt(t) = Sample(InputAt(t - (L + (L \div 4))))

\* C6 amended: the delay is L: the output of tick t is the input of tick
\* t - L, from tick t = L + 3L/4 on.
C6_DelayL ==
    processing = "copy" =>
        \A t \in 0..(Ticked - 1) :
            t >= L + 3 * (L \div 4) => OutputAt(t) = Sample(InputAt(t - L))

\* A non-zero sample comes back L ticks later, before tick 2L.
C6_Witness ==
    /\ processing = "copy"
    /\ L = 8
    /\ \E t \in 0..(Ticked - 1) :
          t >= L + 3 * (L \div 4) /\ t < 2 * L /\ InputAt(t - L) = 1 /\ OutputAt(t) = Sample(1)

\* The input is a unit impulse at sample 0 followed by zeros.
ImpulseAtZero ==
    /\ Ticked > 0
    /\ InputAt(0) = 1
    /\ \A t \in 1..(Ticked - 1) : InputAt(t) = 0

\* C7 as stated: the output is zero for samples 0..L and the impulse is
\* then reproduced: some later output is non-zero (it is looked for up to
\* tick 2L + L/4, one hop past the point of exact reconstruction).
C7_ImpulseReproduced ==
    (processing = "copy" /\ ImpulseAtZero) =>
        /\ \A t \in 0..(Ticked - 1) : t <= L => OutputAt(t) = RZero
        /\ Ticked > 2 * L + (L \div 4) => \E t \in 0..(Ticked - 1) : OutputAt(t) # RZero

\* C7 amended: the output is zero for samples 0..L and stays zero: the
\* impulse at sample 0 is never reproduced.
C7_ImpulseSilenced ==
    (processing = "copy" /\ ImpulseAtZero) =>
        \A t \in 0..(Ticked - 1) : OutputAt(t) = RZero

\* The impulse scenario run past tick 2L + L/4.
C7_Witness ==
    /\ processing = "copy"
    /\ L = 8
    /\ ImpulseAtZero
    /\ Ticked > 2 * L + (L \div 4)

\* Z * (w[i]^2 + w[i + L/4]^2 + w[i + L/2]^2 + w[i + 3L/4]^2), as the pair
\* numerator / denominator.
GainNum(i) ==
    RScale(ZNum,
           RSum([j \in 0..(WINDOWS - 1) |->
                    RMul(window_function[(i + j * (L \div 4)) % L],
                         window_function[(i + j * (L \div 4)) % L])],
                0, WINDOWS - 1))
GainDen == ZDen * HannDen * HannDen

\* C8: for every ring alignment i the four analysis*synthesis gains scaled
\* by Z sum to 1, and the alignments the four windows are at in any state
\* are such a set.
C8_HannUnityGain ==
    /\ \A i \in 0..(L - 1) : GainNum(i) = RInt(GainDen)
    /\ \A k \in 0..(WINDOWS - 1) :
          window[k].index = (window[0].index + k * (L \div 4)) % L

\* An alignment whose Hann values are irrational.
C8_Witness ==
    /\ L = 8
    /\ window[0].index = 3
    /\ GainNum(window[0].index) = RInt(GainDen)

(***************************************************************************)
(* Vocabulary of the buffer claims.                                        *)
(***************************************************************************)
\* n = c * b over the naturals, stated without forming the product.
ProductIs(c, b, n) == IF c = 0 \/ b = 0 THEN n = 0 ELSE n % c = 0 /\ n \div c = b
Shaped(b) == ProductIs(b.channels, b.blocksize, Len(b.samples))
Wrapping == {"new_ref", "new_mut", "new_from"}
Allocating == {"new", "new_mono"}
\* The buffer the latest constructor call returned.
Exists(b) == b.storage # "None"
Latest == IF Exists(dest) THEN dest ELSE source

\* C9: every Buffer that exists has samples.len() = channels * blocksize;
\* new and new_mono return exactly channels * blocksize default samples;
\* new_ref, new_mut and new_from panic whenever channels * blocksize
\* differs from the length of the storage they are given.
C9_BufferShape ==
    /\ Exists(source) => Shaped(source)
    /\ Exists(dest) => Shaped(dest)
    /\ (call.op \in Allocating /\ outcome = "ok") =>
            /\ Shaped(Latest)
            /\ \A p \in DOMAIN Latest.samples : Latest.samples[p] = Default(Latest.item)
    /\ (call.op \in Wrapping /\ ~ProductIs(call.channels, call.blocksize, call.len)) =>
            outcome = "panic"

\* C9 (failing input): new_ref(65536, 65536, &[]) has returned a Buffer of
\* 65536 channels of 65536 samples over an empty slice.
C9_Witness ==
    /\ call = Call("new_ref", Half, Half, 0)
    /\ outcome = "ok"
    /\ source.channels = Half
    /\ source.blocksize = Half
    /\ source.samples = <<>>

\* C9 in a build with overflow checks: the shape holds in every state, since
\* a product that does not fit in usize panics before anything is built.
C9_BufferShapeChecked == overflow_checks => C9_BufferShape

\* C10: after dest.convert_from(&source) has returned, from Channels to
\* Interleaved buffers of equal channel count and block size, the sample at
\* slot n of frame i of dest (index i * channels + n) is the scalar
\* conversion of sample i of channel n of source (index n * blocksize + i),
\* for every sample of dest.
C10_ChannelsToInterleaved ==
    (/\ call.op = "convert_from"
     /\ outcome = "ok"
     /\ source.channels = dest.channels
     /\ source.blocksize = dest.blocksize) =>
        \A p \in DOMAIN dest.samples :
            LET n == (p - 1) % dest.channels
                i == (p - 1) \div dest.channels
            IN  /\ n * source.blocksize + i + 1 \in DOMAIN source.samples
                /\ dest.samples[p] =
                     convert_sample(source.item, dest.item,
                                    source.samples[n * source.blocksize + i + 1])

\* A 2 x 2 conversion between sample types whose channels differ.
C10_Witness ==
    /\ call.op = "convert_from"
    /\ outcome = "ok"
    /\ source.channels = 2 /\ dest.channels = 2
    /\ source.blocksize = 2 /\ dest.blocksize = 2
    /\ source.item = "f32" /\ dest.item = "i32"
    /\ source.samples = <<<<1, 0>>, <<0, 0>>, <<0 - 1, 0 - 1>>, <<1, 0>>>>
    /\ dest.samples = <<I32Max, 0 - 1073741824, 0, I32Max>>

SameShape(a, b) == a.channels = b.channels /\ a.blocksize = b.blocksize

\* C11: when a Channels buffer has been converted into an Interleaved buffer
\* of its shape and sample type, and that one back into a Channels buffer of
\* the same shape and sample type, the last buffer holds the samples of the
\* first, sample for sample.
C11_LayoutRoundTrip ==
    (/\ call.op = "convert_back"
     /\ outcome = "ok"
     /\ SameShape(source, dest) /\ SameShape(dest, back)
     /\ source.item = dest.item /\ dest.item = back.item) =>
        back.samples = source.samples

\* A 2 x 2 round trip whose interleaved form differs from the original.
C11_Witness ==
    /\ call.op = "convert_back"
    /\ outcome = "ok"
    /\ SameShape(source, dest) /\ SameShape(dest, back)
    /\ source.item = "i32" /\ dest.item = "i32" /\ back.item = "i32"
    /\ source.samples = <<0, 16777217, I32Min, 0>>
    /\ dest.samples = <<0, I32Min, 16777217, 0>>
    /\ back.samples = <<0, 16777217, I32Min, 0>>

\* The samples an Interleaved buffer of the shape of d holds after the
\* layout conversion of c.
LayoutOf(c, d) == convert_from(d, c).samples

\* C12: when dest held the layout conversion of source and one in-place
\* operator (+=, -=, *=, /=, %=) has been applied with the same scalar to
\* both, dest holds the layout conversion of source again.
C12_OpsCommuteWithLayout ==
    (call.op \in Ops /\ outcome = "ok") => dest.samples = LayoutOf(source, dest)

\* A 2 x 2 f32 pair divided by 3, whose two channels differ.
C12_Witness ==
    /\ call.op = "div_assign"
    /\ outcome = "ok"
    /\ source.item = "f32"
    /\ source.channels = 2 /\ source.blocksize = 2
    /\ source.samples = <<<<11184811, 0 - 25>>, <<0, 0>>, <<0 - 11184811, 0 - 26>>, <<0, 0>>>>
    /\ dest.samples = <<<<11184811, 0 - 25>>, <<0 - 11184811, 0 - 26>>, <<0, 0>>, <<0, 0>>>>

\* C13: on a Channels buffer, left() and left_mut() return a channel view
\* iff channels >= 1, right() and right_mut() iff channels >= 2, and none of
\* them panics, whatever the channel count and the block size.
C13_AbsentChannelIsNone ==
    call.op \in Accessors =>
        /\ outcome = "ok"
        /\ Exists(view) <=> call.channels >= Skips(call.op) + 1

\* C13 (failing input): left() on Buffer::<Channels, _>::new(0, 0) panicked.
C13_Witness == call = Call("left", 0, 0, 0) /\ outcome = "panic"

\* C13 for the buffers that have channels * blocksize samples and a block
\* size of at least 1: the accessors return, and return the view or None
\* as claimed.
C13_WhenBlocksizePositive ==
    (/\ call.op \in Accessors
     /\ call.blocksize >= 1
     /\ ProductIs(call.channels, call.blocksize, call.len)) =>
        /\ outcome = "ok"
        /\ Exists(view) <=> call.channels >= Skips(call.op) + 1
        /\ Exists(view) =>
                view.samples = SubSeq(source.samples,
                                      Skips(call.op) * source.blocksize + 1,
                                      (Skips(call.op) + 1) * source.blocksize)

(***************************************************************************)
(* Vocabulary of the sample claims.                                        *)
(***************************************************************************)
\* |a - b| <= t, for i32 a and b and a small t.
Within(a, b, t) ==
    IF (a < 0) = (b < 0) THEN Abs(a - b) <= t
    ELSE a >= 0 - t /\ a <= t /\ b >= 0 - t /\ b <= t /\ Abs(a - b) <= t
\* Half a unit in the last place of the f32 that holds v: 2^(n - 25) for
\* an i32 of n > 24 significant bits, nothing below.
HalfUlp(v) ==
    LET n == IF v = I32Min THEN 32 ELSE BitLen(Abs(v))
    IN  IF n <= 24 THEN 0 ELSE Pow2(n - 25)
SwapHalves(w) == FromU32(<<ToU32(w)[2], ToU32(w)[1]>>)

\* C14 as stated: an i32 v converted to f32 and back to i32 is within 1
\* of v.
C14_RoundTripWithinOne ==
    conv.op = "round_trip" => Within(conv.result, conv.given, 1)

\* C14: an i32 v converted to f32 and back to i32 is within half a unit in
\* the last place of the f32 that holds v: 2^(n - 25) for a v of n > 24
\* significant bits (at most 64), and v itself for every v of at most 24
\* significant bits and for every multiple of 256 (24-bit PCM).
C14_RoundTripWithinHalfUlp ==
    conv.op = "round_trip" =>
        /\ Within(conv.result, conv.given, HalfUlp(conv.given))
        /\ conv.given % 256 = 0 => conv.result = conv.given

\* 2^30 + 63 has come back as 2^30.
C14_Witness == conv = Conv("round_trip", 1073741887, <<1, 0 - 1>>, 1073741824)

\* C15: the 24B16 conversions swap the two 16-bit halves of the word, in
\* both directions, for every 32-bit value.
C15_WordSwap ==
    conv.op \in {"samplew16_from_i32", "i32_from_samplew16"} =>
        conv.result = SwapHalves(conv.given)

\* C15 (failing input): the host word 0x00010001 has become 0x00010000.
C15_Witness == conv = Conv("i32_from_samplew16", 65537, <<0, 0>>, 65536)

\* C15, what the conversions do instead: host to internal keeps the low
\* half of the word as the high half over a zero low half; internal to host
\* keeps the high half as the low half under its sign extension.
C15_Shift ==
    /\ conv.op = "i32_from_samplew16" =>
            ToU32(conv.result) = <<ToU32(conv.given)[2], 0>>
    /\ conv.op = "samplew16_from_i32" =>
            ToU32(conv.result) =
                <<IF conv.given < 0 THEN Half - 1 ELSE 0, ToU32(conv.given)[1]>>


(***************************************************************************)
(* The engine: the output spectrum, the packed layout, construction and    *)
(* failure paths.                                                          *)
(***************************************************************************)
\* The bins of output channel 0 the closure `kind` sets.
BinsSet(kind, length) ==
    CASE kind = "copy" -> 0..(bins(length) - 1)
      [] kind = "none" -> {}
      [] kind = "dc"   -> {0}

\* C16: whenever the processing callback is invoked for a window, every
\* output-spectrum value of every output channel of that window is zero, and
\* every bin the callback does not set is still zero when the inverse
\* transform has run: nothing a previous invocation wrote survives.
C16_OutputClearedForCallback ==
    /\ \A k \in DOMAIN seen :
         \A c \in DOMAIN seen[k].window.output_fft :
           \A i \in DOMAIN seen[k].window.output_fft[c] :
             seen[k].window.output_fft[c][i] = CZero
    /\ \A k \in transformed :
         \A i \in (0..(bins(window_length) - 1)) \ BinsSet(processing, window_length) :
           window[k].output_fft[0][i] = CZero

\* A window is transformed for at least the second time by a closure that
\* writes a non-zero bin at every invocation.
C16_Witness ==
    /\ processing = "dc"
    /\ Len(fed) >= 2 * window_length
    /\ transformed # {}
    /\ \A k \in transformed : window[k].output_fft[0][0] # CZero


\* The Nyquist term of the input ring a seen window was transformed from.
Nyquist(k, c) == Dft2(seen[k].input[c], window_length, window_length \div 2).re
\* Its DC term.
Dc(k, c) == Dft2(seen[k].input[c], window_length, 0).re

\* C17: the window handles the packed layout of the FFT capability: after the
\* forward transform at(channel, 0) is the real-only DC term, at(channel, L/2)
\* is the Nyquist term and the bins between are the transform's; and the
\* value the inverse transform reads as the Nyquist term, the imaginary slot
\* of bin 0, is the one set at bin L/2.
C17_PackedLayoutHandled ==
    /\ \A k \in DOMAIN seen :
         \A c \in DOMAIN seen[k].window.input_fft :
           /\ at(seen[k].window, c, 0) = Complex(Dc(k, c), RZero)
           /\ at(seen[k].window, c, window_length \div 2) = Complex(Nyquist(k, c), RZero)
           /\ \A i \in 1..(window_length \div 2 - 1) :
                at(seen[k].window, c, i) = Dft2(seen[k].input[c], window_length, i)
    /\ \A k \in transformed :
         \A c \in DOMAIN window[k].output_fft :
           window[k].output_fft[c][0].im = window[k].output_fft[c][window_length \div 2].re

\* A window whose input has a non-zero Nyquist term reaches the callback
\* with that term in the imaginary slot of bin 0 and zero at bin L/2.
C17_Witness ==
    \E k \in DOMAIN seen :
        /\ Nyquist(k, 0) # RZero
        /\ at(seen[k].window, 0, 0).im = Nyquist(k, 0)
        /\ at(seen[k].window, 0, window_length \div 2) = CZero

\* What the window does with the layout: the packed values pass through.
\* at(channel, 0) is the pair (DC, Nyquist), at(channel, L/2) is never
\* written, and the inverse transform reads bin 0 as the callback set it.
C17_PackedLayoutPassedThrough ==
    /\ \A k \in DOMAIN seen :
         \A c \in DOMAIN seen[k].window.input_fft :
           /\ at(seen[k].window, c, 0) = Complex(Dc(k, c), Nyquist(k, c))
           /\ at(seen[k].window, c, window_length \div 2) = CZero
    /\ \A k \in transformed :
         processing = "copy" =>
           window[k].output_fft[0][0] = at(seen[k].window, 0, 0)


\* A window length Resynth::new is to accept.
PowerOfTwoFromFour(n) == n >= 4 /\ \E k \in 2..30 : n = Pow2(k)

C19_TickNeverPanics ==
    /\ failure # "tick"
    /\ ~hop_mask_underflows(window_length)
    /\ \A k \in 0..(WINDOWS - 1) : window[k].index < window_length

\* A tick that ran the transforms of a window, after a non-zero input.
C19_Witness ==
    /\ failure = "none"
    /\ transformed # {}
    /\ pulses > 0
    /\ ticks = MaxTicks


\* The provider did what fft_real asks of it: it could be called, it
\* returned OK and it left the requested length in the instance.
Provided(r) ==
    /\ pv.serviceCall
    /\ r.host.ret = "OWL_SERVICE_OK"
    /\ r.host.fftLenRFFT = r.size

\* C20: fft_real(size) returns Err, and no RealFft, when the service call is
\* unavailable, returns a status other than OK, or leaves a length other
\* than the requested one in the instance; it returns Ok only with a RealFft
\* whose real_size() is the requested size.
C20_ProviderFailureIsErr ==
    rfft.call = "fft_real" =>
        /\ rfft.result.is \in {"Ok", "Err"}
        /\ (rfft.result.is = "Err") <=> ~Provided(rfft)
        /\ (rfft.result.is = "Err") => rfft.result.value = "None"
        /\ (rfft.result.is = "Ok") => rfft.result.value.real_size = rfft.size

\* The host returned OK and left the instance zeroed: fft_real returned Err.
C20_Witness ==
    /\ rfft.call = "fft_real"
    /\ pv.serviceCall
    /\ rfft.host.ret = "OWL_SERVICE_OK"
    /\ rfft.host.fftLenRFFT = 0
    /\ rfft.result = Err("rfft instance was not initialised")


(***************************************************************************)
(* The program vector.                                                     *)
(***************************************************************************)
Returned == {p \in DOMAIN callers : callers[p].at = "returned"}
Diverged == {p \in DOMAIN callers : callers[p].at \in {"in program_status", "in loop"}}

\* C21: ProgramVector::instance() returns to at most one caller; a call
\* whose swap found the flag set never returns: it writes
\* CONFIGURATION_ERROR_STATUS and 'program vector already taken' and
\* diverges.  At most one call finds the flag clear.
C21_SingleAcquisition ==
    /\ Cardinality(Returned) <= 1
    /\ Cardinality({p \in DOMAIN callers :
                      callers[p].at # "instance" /\ ~callers[p].taken}) <= 1
    /\ \A p \in DOMAIN callers :
         callers[p].taken =>
           /\ callers[p].at # "returned"
           /\ p \in Diverged =>
                /\ callers[p].code = "CONFIGURATION_ERROR_STATUS"
                /\ callers[p].message = "program vector already taken"

\* One caller holds the instance and every other call has diverged.
C21_Witness ==
    /\ Cardinality(Returned) = 1
    /\ Cardinality(Diverged) = MaxCallers - 1


(***************************************************************************)
(* Interpolation.                                                          *)
(***************************************************************************)
Between(r, a, b) == (a <= r /\ r <= b) \/ (b <= r /\ r <= a)

\* C23: integer lerp is exact at the end points, lies between a and b for
\* every alpha in [0, 1], is a + floor((b - a) * alpha_fixed / 2^k) (k = 16
\* for i32, 8 for i16; compared where the product fits the checker's
\* integers), and gives -1 for the pairs (MIN, MAX) and (MAX, MIN) at 0.5.
C23_IntegerLerpExact ==
    interp.op = "lerp" =>
      LET a  == interp.a
          b  == interp.b
          r  == interp.result
          k  == IF interp.item = "i32" THEN 16 ELSE 8
          lo == IF interp.item = "i32" THEN I32Min ELSE I16Min
          hi == IF interp.item = "i32" THEN I32Max ELSE I16Max
          af == fraction(interp.alpha, k)
      IN  /\ interp.alpha = <<0, 0>> => r = a
          /\ interp.alpha = <<1, 0>> => r = b
          /\ Between(r, a, b)
          /\ ({a, b} \subseteq (0 - 16384)..16384) =>
                r = a + (((b - a) * af) \div Pow2(k))
          /\ ({a, b} = {lo, hi} /\ interp.alpha = <<1, 0 - 1>>) => r = 0 - 1

\* lerp(i32::MAX, i32::MIN, 0.5) has returned -1.
C23_Witness ==
    /\ interp.op = "lerp"
    /\ interp.item = "i32"
    /\ interp.a = I32Max
    /\ interp.b = I32Min
    /\ interp.alpha = <<1, 0 - 1>>
    /\ interp.result = 0 - 1

\* C22: index_lerp on a non-empty interleaved buffer does not panic and
\* yields exactly one value per channel c, lerp(frame(i0)[c], frame(i1)[c],
\* alpha), with i0 = floor(index) mod blocksize, i1 = (floor(index) + 1) mod
\* blocksize and alpha = index - floor(index).
FrameAt(self, i, c) == self.samples[i * self.channels + c]
C22_IndexLerpPerChannel ==
    (interp.op = "index_lerp" /\ interp.self.samples # <<>>) =>
        LET self  == interp.self
            f     == f32_floor(interp.index)
            i0    == f32_as_i32(f) % self.blocksize
            i1    == (f32_as_i32(f) + 1) % self.blocksize
            alpha == f32_sub(interp.index, f)
        IN  /\ interp.result.panics = "none"
            /\ Len(interp.result.values) = self.channels
            /\ \A c \in 1..self.channels :
                   interp.result.values[c] =
                       Lerp(self.item, FrameAt(self, i0, c), FrameAt(self, i1, c), alpha)
\* A two-channel block of two frames read at index 1/2 panics in next().
C22_Witness ==
    /\ interp.op = "index_lerp"
    /\ interp.self.channels = 2
    /\ interp.self.blocksize = 2
    /\ interp.index = <<1, 0 - 1>>
    /\ interp.result.panics = "next"
    /\ interp.result.values = <<>>

\* C24: Frame::is_empty() returns true iff the frame holds zero samples
\* (len() == 0), and false for every frame with at least one channel.
C24_IsEmptyIffNoSamples ==
    (stored.kind = "Frame" /\ stored.asked = "is_empty") =>
        (stored.answer <=> Frame_len(stored) = 0)
\* A frame of two channels answers true, an empty frame false.
C24_Witness ==
    /\ stored.kind = "Frame"
    /\ stored.asked = "is_empty"
    /\ Len(stored.samples) = 2
    /\ stored.answer = TRUE

\* C30: for every slice and every channel count n >= 1, Channels::new_ref
\* and Channels::new_mut yield exactly n channel views, each of length
\* samples.len() / n, that together cover every sample exactly once in
\* physical order; a slice whose length is not compatible with n is
\* rejected rather than wrapped in a differently shaped storage.
RECURSIVE Flatten(_)
Flatten(views) ==
    IF views = <<>> THEN <<>> ELSE Head(views).samples \o Flatten(Tail(views))
C30_ChannelsKeepShape ==
    (stored.kind \in {"Channels", "panic"} /\ stored.nchannels >= 1) =>
        IF Len(stored.samples) % stored.nchannels # 0
        THEN stored.kind = "panic"
        ELSE stored.kind = "Channels" =>
                /\ Len(stored.channels) = stored.nchannels
                /\ \A k \in 1..Len(stored.channels) :
                       Len(stored.channels[k].samples) =
                           Len(stored.samples) \div stored.nchannels
                /\ Flatten(stored.channels) = stored.samples
\* Three samples wrapped as two channels: three views of one sample each.
C30_Witness ==
    /\ stored.kind = "Channels"
    /\ stored.op = "new_ref"
    /\ stored.nchannels = 2
    /\ Len(stored.samples) = 3
    /\ Len(stored.channels) = 3
\* What the code keeps: a storage that was built covers every sample once
\* in physical order, in views of samples.len() / n samples, the last one
\* shorter when n does not divide the length.
C30_ChunkedCover ==
    stored.kind = "Channels" =>
        /\ Flatten(stored.channels) = stored.samples
        /\ \A k \in 1..Len(stored.channels) :
               Len(stored.channels[k].samples) <= Len(stored.samples) \div stored.nchannels
        /\ (Len(stored.samples) % stored.nchannels = 0 =>
                Len(stored.channels) = stored.nchannels)

\* C25: inside one tick every window does write(input, hann[index]), then
\* read (accumulated into the frame returned), then advance(); the global
\* counter is incremented after the four; a transform runs only after that,
\* as forward FFT, clear_output, callback, inverse FFT.  So the frame
\* returned is read from the output rings as they were before the tick, and
\* the sample written in the tick is in the ring (at position L - 1) that a
\* window transformed in the tick hands to its forward transform.
C25_Step ==
    (ticks' = ticks + 1 /\ failure' = "none") =>
        LET input == fed'[Len(fed')]
            hann  == window_function
            after(k) == advance(write(window[k], input, hann[window[k].index]))
        IN  /\ outs'[Len(outs')] = tick_output(window, hann)
            /\ samples' = wrapping_add1(samples)
            /\ transformed' # {} => hop_boundary(samples', L)
            /\ \A k \in 0..(WINDOWS - 1) :
                   IF k \in transformed'
                   THEN /\ window[k].index = L - 1
                        /\ \A c \in DOMAIN input :
                               seen'[k].input[c][L - 1] = RScale(input[c], hann[L - 1])
                        /\ seen'[k].input = after(k).input
                        /\ seen'[k].window = clear_output(forward(after(k)))
                        /\ window'[k] = inverse(extend_values(
                                             Processing(processing, seen'[k].window)))
                   ELSE window'[k] = after(k)
C25_TickOrder == [][C25_Step]_vars
\* A tick that was fed a non-zero sample and transformed a window, whose
\* forward transform found that sample in its ring.
C25_Witness ==
    /\ processing = "copy"
    /\ Ticked > 0
    /\ fed[Len(fed)][0] # 0
    /\ \E k \in transformed : seen[k].input[0][L - 1] # RZero

\* C26: whenever the forward transform of a window starts, with n the number
\* of ticks processed since new() or reset(), position i of its input ring
\* holds hann[i] * x_c[n - L + i] for every input channel c and every i in
\* 0..L-1, x_c[t] being the channel-c input of 0-based tick t: the L most
\* recent inputs in chronological order.
C26_RingAtTransform ==
    \A k \in transformed : \A c \in 0..(Inputs - 1) : \A i \in 0..(L - 1) :
        seen[k].input[c][i] = RScale(fed[(Ticked - L + i) + 1][c], window_function[i])
\* After a reset, a transform finds a non-zero sample in the middle of its ring.
C26_Witness ==
    /\ WasReset
    /\ \E k \in transformed : \E i \in 1..(L - 2) : seen[k].input[0][i] # RZero

\* C27: the cadence goes on for ever: the global counter and every window's
\* counter are incremented with wrapping 32-bit arithmetic and stay equal,
\* and after they wrap each window is still transformed once every L ticks:
\* no hop boundary passes without exactly one window being transformed.
C27_CadenceSurvivesWrap ==
    /\ \A k \in 0..(WINDOWS - 1) : window[k].samples = samples
    /\ (Ticked > 0 /\ hop_boundary(samples, L)) => Cardinality(transformed) = 1
\* The tick on which the counters wrap to 0 is a hop boundary, window 0 is
\* at index 0, and nothing is transformed.
C27_Witness ==
    /\ Ticked > 0
    /\ samples = U32Zero
    /\ window[0].index = 0
    /\ transformed = {}
\* What the code keeps: the counters stay equal, a hop boundary transforms
\* at most one window, and exactly one unless the wrapped counter is below L.
C27_CadenceButForWrap ==
    /\ \A k \in 0..(WINDOWS - 1) : window[k].samples = samples
    /\ (Ticked > 0 /\ hop_boundary(samples, L)) =>
           Cardinality(transformed) = (IF U32Ge(samples, L) THEN 1 ELSE 0)

\* C28: after reset() the global counter and the window counters are 0,
\* window k has index k * L/4 and all input and output rings are zero, a
\* second reset() changes nothing, and the ticks after reset() return what a
\* freshly constructed engine returns for the same inputs, whatever was
\* processed before.
\* Whether outs[t..] are the frames an engine with windows win and counter
\* n_samples returns for the inputs fed[t..].
RECURSIVE SameAsFrom(_, _, _)
SameAsFrom(win, n_samples, t) ==
    \/ t > Len(fed)
    \/ /\ outs[t] = tick_output(win, window_function)
       /\ \A next \in {ticked_windows(win, n_samples, fed[t], window_function, processing)} :
          \A n \in {wrapping_add1(n_samples)} :
              SameAsFrom(next, n, t + 1)
ZeroRing(ring) == \A c \in DOMAIN ring : \A i \in DOMAIN ring[c] : ring[c][i] = RZero
C28_ResetIsFresh ==
    WasReset =>
        /\ Ticked = 0 =>
               /\ samples = U32Zero
               /\ \A k \in 0..(WINDOWS - 1) :
                      /\ window[k].samples = U32Zero
                      /\ window[k].index = k * (L \div 4)
                      /\ ZeroRing(window[k].input)
                      /\ ZeroRing(window[k].output)
                      /\ FftWindow_reset(window[k], k * (L \div 4)) = window[k]
        /\ SameAsFrom(Resynth_new_window(L), U32Zero, 1)
\* An engine that processed a non-zero sample, was reset and has since been
\* fed silence returns a non-zero frame (the closure sets the DC bin).
C28_Witness ==
    /\ WasReset
    /\ pulses = 1
    /\ Ticked > L
    /\ \A t \in 1..Ticked : fed[t][0] = 0
    /\ outs[Ticked][0] # RZero

\* C29: in every iteration of AudioBuffers::run program_ready() is called
\* first, then the host input block is converted into the input buffer,
\* then the closure is called exactly once with that input, then the output
\* buffer is converted into the host output block: the host output of block
\* k is the closure's output for the input of block k and is written before
\* program_ready() is called for block k + 1.  The loop never ends, and run
\* panics with 'no audio available' before the first block when there is
\* no program_ready function.
C29_BlockProtocol ==
    audio.at # "none" =>
        LET a == audio
            n == Len(a.ins)
            zeros == [p \in 1..(a.channels * a.blocksize) |-> 0]
        IN  /\ a.at \in {"new", "panic", "program_ready", "convert_in", "closure",
                          "convert_out"}
            /\ a.at = "panic" <=> (~a.program_ready /\ a.message = "no audio available")
            /\ ~a.program_ready => (a.at \in {"new", "panic"} /\ n = 0)
            /\ Len(a.made) = Len(a.given)
            /\ a.at \in {"new", "panic"} => (n = 0 /\ a.given = <<>> /\ a.written = <<>>)
            /\ a.at = "program_ready" => (Len(a.given) = n /\ Len(a.written) = n)
            /\ a.at = "convert_in" => (Len(a.given) = n - 1 /\ Len(a.written) = n - 1)
            /\ a.at = "closure" =>
                   /\ Len(a.given) = n - 1
                   /\ Len(a.written) = n - 1
                   /\ a.input_buffer = convert_from_host(a.format, a.ins[n])
            /\ a.at = "convert_out" => (Len(a.given) = n /\ Len(a.written) = n - 1)
            /\ \A k \in 1..Len(a.given) :
                   /\ a.given[k] = convert_from_host(a.format, a.ins[k])
                   /\ a.made[k] = Patch(a.patch, a.given[k],
                                        IF k = 1 THEN zeros ELSE a.made[k - 1], k)
            /\ \A k \in 1..Len(a.written) :
                   a.written[k] = convert_to_host(a.format, a.made[k])
            /\ a.output = (IF a.written = <<>> THEN zeros ELSE a.written[Len(a.written)])
            /\ (a.at \in {"convert_in", "closure", "convert_out"}
                   \/ (a.at = "program_ready" /\ n < MaxBlocks)) => ENABLED NextAudio
\* Two blocks through the copying closure in the 24-bit format: the host
\* got back each block it gave, and run is about to call program_ready().
C29_Witness ==
    /\ audio.at = "program_ready"
    /\ audio.patch = "copy"
    /\ audio.format = "Format24B32"
    /\ Len(audio.written) = 2
    /\ audio.written = audio.ins
    /\ audio.ins[1] # audio.ins[2]
    /\ audio.output[1] = 0 - 32768

====
